---- MODULE Spec2Model ----
(***************************************************************************)
(* concur-bench: the concurrent execution coordination layer.              *)
(*                                                                         *)
(* SpecPart  the work-partitioning loops of the three coordinators         *)
(*           (bench_process_unix.c, bench_process_win.c, bench_thread.c),  *)
(*           run on the same (array_length, n).                            *)
(* Spec      one run of main from step 6 on: the baseline, the process     *)
(*           coordinator (Strategy A or B) with its worker processes, the  *)
(*           thread coordinator with its worker threads, output, cleanup;  *)
(*           platform operations whose result the code checks may fail.    *)
(* SpecPipe  one call of cb_pipe_read, byte by byte, against partial       *)
(*           reads, EINTR, read errors and the peer closing its end.       *)
(* SpecSums  the tail of a coordinator's iteration loop (record, sum       *)
(*           consistency check, report) over arbitrary iteration totals.   *)
(* SpecStats one call of cb_stats_compute over arbitrary arguments.         *)
(* SpecKernel cb_array_sum over the slices of a partition and over the     *)
(*           whole array, with the width of `long int` of each platform.   *)
(* SpecPair  Strategy A and Strategy B side by side on one input.          *)
(* SpecLive  Spec without failing platform operations, weakly fair.        *)
(***************************************************************************)
EXTENDS Integers, Sequences, FiniteSets, TLC

(***************************************************************************)
(* Bounds of the model.                                                    *)
(***************************************************************************)
PartMaxLen == 9
PartMaxN == 4
MaxLen == 2         \* config.array_length ranges over 1..MaxLen in Spec
MaxProcs == 2       \* config.num_processes ranges over 1..MaxProcs
MaxThreads == 2     \* config.num_threads ranges over 1..MaxThreads
MaxIter == 2        \* config.iterations ranges over 1..MaxIter
MaxSize == 3        \* cb_pipe_read is asked for 0..MaxSize bytes in SpecPipe
MaxEintr == 1       \* read() is interrupted at most MaxEintr times per call
MaxRounds == 3      \* config.iterations ranges over 1..MaxRounds in SpecSums
MaxSum == 2         \* an iteration's sum ranges over 0..MaxSum in SpecSums
MaxCount == 3       \* cb_stats_compute gets count in -1..MaxCount in SpecStats
MaxSample == 2      \* an elapsed time ranges over 0..MaxSample in SpecStats
KerMaxLen == 3      \* array_length ranges over 1..KerMaxLen in SpecKernel
KerMaxN == 3        \* the worker count ranges over 1..KerMaxN in SpecKernel
KerMaxVal == 2      \* INT_MAX of SpecKernel: elements are -KerMaxVal-1..KerMaxVal
PairMaxLen == 3     \* array_length ranges over 1..PairMaxLen in SpecPair
PairMaxN == 2       \* num_processes ranges over 1..PairMaxN in SpecPair
PairMaxIter == 2    \* iterations ranges over 1..PairMaxIter in SpecPair

VARIABLES
    p_len,      \* config->array_length of the partitioning run
    p_n,        \* worker count n of the partitioning run
    p_i,        \* loop index i of each coordinator's partitioning loop
    p_offset,   \* int offset of each coordinator's partitioning loop
    p_slices,   \* the (start, length) pairs each loop has handed out so far
    platform,   \* "unix" or "win": which bench_process_*.c is compiled in
    config,     \* cb_config_t: array_length, num_processes, num_threads, iterations
    dataset,    \* int *dataset, indices 0..array_length-1
    dataset_live, \* FALSE once cb_dataset_destroy has freed it
    clock,      \* the monotonic clock behind cb_time_now()
    main,       \* main(): its position and err
    session,    \* cb_session_t: the three run reports
    single,     \* locals of cb_bench_single_run
    thr,        \* locals of cb_bench_thread_run
    shared,     \* cb_thread_shared_t shared of the current iteration
    mutex,      \* cb_mutex_t shared_mutex
    threads,    \* one entry per worker thread: position and locals
    prc,        \* locals of cb_bench_process_run
    procs,      \* cb_process_t procs[]: one entry per worker process
    pipes,      \* cb_pipe_t pipes[] (Strategy A)
    shm,        \* the named shared memory segment (Strategy B)
    rdcall,     \* one call of cb_pipe_read and the pipe it reads from
    vrf,        \* a coordinator's iteration loop fed with arbitrary sums
    stc,        \* one call of cb_stats_compute with its arguments
    ker,        \* the kernel applied slice by slice to a partitioned array
    ab          \* Strategy A and Strategy B run side by side on one input

partVars == <<p_len, p_n, p_i, p_offset, p_slices>>

envVars == <<platform, config, dataset>>

threadVars == <<thr, shared, mutex, threads>>

procVars == <<prc, procs, pipes, shm>>

progVars == <<platform, config, dataset, dataset_live, clock, main, session,
              single, thr, shared, mutex, threads, prc, procs, pipes, shm>>

vars == <<p_len, p_n, p_i, p_offset, p_slices, platform, config, dataset,
          dataset_live, clock, main, session, single, thr, shared, mutex,
          threads, prc, procs, pipes, shm, rdcall, vrf, stc, ker, ab>>

unitVars == <<rdcall, vrf, stc, ker, ab>>

Modes == {"unix", "win", "thread"}

(***************************************************************************)
(* The partitioning arithmetic.  Each coordinator carries its own copy of  *)
(* the three lines  base_len = array_length / n;                           *)
(*                  remainder = array_length % n;                          *)
(*                  chunk = base_len + (i < remainder ? 1 : 0);            *)
(* C's / and % on non-negative ints are \div and %.                        *)
(***************************************************************************)
base_len(array_length, n) == array_length \div n

remainder(array_length, n) == array_length % n

ChunkOffByOne(array_length, n, i) ==
    base_len(array_length, n) + (IF i <= remainder(array_length, n) THEN 1 ELSE 0)

ChunkTailHeavy(array_length, n, i) ==
    base_len(array_length, n)
        + (IF i >= n - remainder(array_length, n) THEN 1 ELSE 0)

ChunkProcUnix(array_length, n, i) ==
    base_len(array_length, n) + (IF i < remainder(array_length, n) THEN 1 ELSE 0)

ChunkProcWin(array_length, n, i) ==
    base_len(array_length, n) + (IF i < remainder(array_length, n) THEN 1 ELSE 0)

ChunkThread(array_length, n, i) ==
    base_len(array_length, n) + (IF i < remainder(array_length, n) THEN 1 ELSE 0)

ChunkOf(mode, array_length, n, i) ==
    CASE mode = "unix"   -> ChunkProcUnix(array_length, n, i)
      [] mode = "win"    -> ChunkProcWin(array_length, n, i)
      [] mode = "thread" -> ChunkThread(array_length, n, i)

(***************************************************************************)
(* Error codes (error.h) and the compute kernel (worker.c).                *)
(***************************************************************************)
CB_OK == "CB_OK"
CB_ERR_ALLOC == "CB_ERR_ALLOC"
CB_ERR_PIPE == "CB_ERR_PIPE"
CB_ERR_FORK == "CB_ERR_FORK"
CB_ERR_THREAD == "CB_ERR_THREAD"
CB_ERR_MUTEX == "CB_ERR_MUTEX"
CB_ERR_PLATFORM == "CB_ERR_PLATFORM"
CB_ERR_ARGS == "CB_ERR_ARGS"
CB_ERR_SHM == "CB_ERR_SHM"

\* config.seed values of the model (a seed of 0 is replaced by a generated
\* non-zero one before srand)
Seeds == {1}

RECURSIVE Rand(_, _)
\* the k-th value of rand() after srand(seed), as a linear congruential
\* generator: x' = (x * 75 + 74) mod 65537
Rand(seed, k) == IF k = 0 THEN seed ELSE (Rand(seed, k - 1) * 75 + 74) % 65537

\* cb_dataset_create: data[i] = rand() % 100 + 1 for i = 0..array_length-1
DatasetOf(seed, array_length) ==
    [x \in 0..(array_length - 1) |-> (Rand(seed, x + 1) % 100) + 1]

RECURSIVE SumLoop(_, _, _, _)
\* for (i = start; i < start + length; i++) sum += dataset[i];
SumLoop(ds, i, end, acc) ==
    IF i < end THEN SumLoop(ds, i + 1, end, acc + ds[i]) ELSE acc

\* cb_array_sum: the sum of the slice; the two clock reads around the loop
\* are taken in the same step, `now` being the first
cb_array_sum(ds, start, length, now) ==
    [sum |-> SumLoop(ds, start, start + length, 0),
     elapsed_sec |-> (now + 1) - now]

RECURSIVE StartOf(_, _, _, _)
\* the value of `offset` when the partitioning loop reaches index i
StartOf(mode, array_length, n, i) ==
    IF i = 0 THEN 0
    ELSE StartOf(mode, array_length, n, i - 1)
            + ChunkOf(mode, array_length, n, i - 1)

\* main has not returned yet: its threads exist, its children are its own
Running == main.pc # "exit"

NoReport == [label |-> "", sum |-> 0, parallelism |-> 0, stats_iterations |-> 0]

\* cb_stats_compute as the coordinators use it: CB_ERR_ARGS when count < 1,
\* otherwise the statistics of `count` samples are stored
LastSum(iter, iter_sum, verified_sum) == iter_sum

\* if (iter == 0) { verified_sum = iter_sum; }
\* else if (iter_sum != verified_sum) { fprintf(stderr, "WARNING: ..."); }
VerifiedSum(iter, iter_sum, verified_sum) ==
    IF iter = 0 THEN iter_sum ELSE verified_sum

StatsErr(count) == IF count < 1 THEN CB_ERR_ARGS ELSE CB_OK

(***************************************************************************)
(* Baseline coordinator: cb_bench_single_run (bench_single.c).             *)
(***************************************************************************)
SingleIdle == [pc |-> "idle", err |-> CB_OK, iter |-> 0, verified_sum |-> 0,
               times |-> << >>]

\* times = calloc(iterations, sizeof(double)); if (!times) return CB_ERR_ALLOC;
S_Alloc ==
    /\ single.pc = "alloc"
    /\ \E ok \in BOOLEAN :
          single' = IF ok THEN [single EXCEPT !.pc = "loop"]
                    ELSE [single EXCEPT !.pc = "returned", !.err = CB_ERR_ALLOC]
    /\ UNCHANGED <<partVars, unitVars, envVars, dataset_live, clock, main, session,
                   threadVars, procVars>>

KernelConsumes(data, start, length) ==
    [x \in DOMAIN data |->
        IF start <= x /\ x < start + length THEN 0 ELSE data[x]]

\* what the array holds after `for (i = start; i < start + length; i++)
\* sum += dataset[i];`: the loop reads through `const int *dataset` and
\* stores only into its local sum
KernelWrites(data, start, length) == data

\* one round of the for loop: kernel over the full dataset, record, verify
S_Iter ==
    /\ single.pc = "loop"
    /\ single.iter < config.iterations
    /\ LET result == cb_array_sum(dataset, 0, config.array_length, clock) IN
          single' = [single EXCEPT
                        !.times = Append(@, result.elapsed_sec),
                        !.verified_sum = VerifiedSum(single.iter, result.sum, @),
                        !.iter = @ + 1]
    /\ dataset' = KernelWrites(dataset, 0, config.array_length)
    /\ clock' = clock + 2
    /\ UNCHANGED <<partVars, unitVars, platform, config, dataset_live, main, session,
                   threadVars, procVars>>

\* after the loop: fill the report, compute the statistics, free, return
S_Report ==
    /\ single.pc = "loop"
    /\ single.iter >= config.iterations
    /\ session' = [session EXCEPT !.single =
                      [label |-> "single", sum |-> single.verified_sum,
                       parallelism |-> 1,
                       stats_iterations |->
                           IF StatsErr(config.iterations) = CB_OK
                              THEN config.iterations ELSE @.stats_iterations]]
    /\ single' = [single EXCEPT !.pc = "returned",
                                !.err = StatsErr(config.iterations)]
    /\ UNCHANGED <<partVars, unitVars, envVars, dataset_live, clock, main, threadVars, procVars>>

SingleNext == S_Alloc \/ S_Iter \/ S_Report

(***************************************************************************)
(* Thread coordinator: cb_bench_thread_run (bench_thread.c) and the        *)
(* worker threads running cb_array_sum_thread_fn (worker.c).               *)
(***************************************************************************)
NoOwner == -1

\* launched: as a record of the run, the threads created so far
ThreadIdle == [pc |-> "idle", err |-> CB_OK, iter |-> 0, i |-> 0,
               created |-> 0, mutex_initialized |-> FALSE,
               verified_sum |-> 0, times |-> << >>, launched |-> 0]

\* cb_thread_shared_t shared = { .sum = 0, .earliest_start = -1.0, .latest_end = 0.0 }
\* inst tells the instances apart: the block-scoped `shared` of iteration
\* iter is instance iter + 1, and 0 is no instance
SharedReset == [sum |-> 0, earliest_start |-> -1, latest_end |-> 0, inst |-> 0]

\* a thread with the fields of its params[] entry; mutex_ref and shared_ref
\* are the instances params[i].mutex and params[i].shared point at; locks
\* counts the calls of cb_mutex_lock the thread function has returned from;
\* iter is the iteration that created the thread
NoThread == [pc |-> "none", start |-> 0, length |-> 0, t_start |-> 0,
             t_end |-> 0, partial_sum |-> 0, joined |-> FALSE,
             mutex_ref |-> 0, shared_ref |-> 0, locks |-> 0, iter |-> 0]

ThreadIds == 0..(config.num_threads - 1)

\* threads, params, times = calloc(...); if (!threads || !params || !times) goto cleanup
T_Alloc ==
    /\ thr.pc = "alloc"
    /\ \E ok \in BOOLEAN :
          thr' = IF ok THEN [thr EXCEPT !.pc = "mutex_init"]
                 ELSE [thr EXCEPT !.pc = "cleanup", !.err = CB_ERR_ALLOC]
    /\ UNCHANGED <<partVars, unitVars, envVars, dataset_live, clock, main, session,
                   single, shared, mutex, threads, procVars>>

\* err = cb_mutex_init(&shared_mutex); if (err) goto cleanup; mutex_initialized = true
T_MutexInit ==
    /\ thr.pc = "mutex_init"
    /\ \E ok \in BOOLEAN :
          IF ok
          THEN /\ mutex' = [state |-> "init", owner |-> NoOwner,
                            inits |-> mutex.inits + 1]
               /\ thr' = [thr EXCEPT !.pc = "loop", !.mutex_initialized = TRUE,
                                     !.verified_sum = 0, !.iter = 0]
          ELSE /\ mutex' = mutex
               /\ thr' = [thr EXCEPT !.pc = "cleanup", !.err = CB_ERR_MUTEX]
    /\ UNCHANGED <<partVars, unitVars, envVars, dataset_live, clock, main, session,
                   single, shared, threads, procVars>>

ParamOwnMutex(i) == mutex.inits + i

\* params[i].mutex = &shared_mutex;  the one mutex of the run, which is
\* instance mutex.inits
ParamMutex(i) == mutex.inits

IterSharedKept(prev, iter) == [prev EXCEPT !.inst = iter + 1]

\* cb_thread_shared_t shared = { .sum = 0, .earliest_start = -1.0,
\*                              .latest_end = 0.0 };
IterShared(prev, iter) == [SharedReset EXCEPT !.inst = iter + 1]

\* top of an iteration: reset the accumulator, fill params[0..n-1] with the
\* partition, created = 0
T_IterBegin ==
    /\ thr.pc = "loop"
    /\ thr.iter < config.iterations
    /\ shared' = IterShared(shared, thr.iter)
    /\ threads' = [t \in ThreadIds |->
                      [threads[t] EXCEPT
                          !.start = StartOf("thread", config.array_length,
                                            config.num_threads, t),
                          !.length = ChunkThread(config.array_length,
                                                 config.num_threads, t),
                          !.mutex_ref = ParamMutex(t),
                          !.shared_ref = thr.iter + 1]]
    /\ thr' = [thr EXCEPT !.pc = "create", !.i = 0, !.created = 0]
    /\ UNCHANGED <<partVars, unitVars, envVars, dataset_live, clock, main, session,
                   single, mutex, procVars>>

\* err = cb_thread_create(&threads[i], cb_array_sum_thread_fn, &params[i]);
\* on failure the coordinator goes on to join the threads already created
T_Create ==
    /\ thr.pc = "create"
    /\ thr.i < config.num_threads
    /\ \E ok \in BOOLEAN :
          IF ok
          THEN /\ threads' = [threads EXCEPT ![thr.i] =
                                 [@ EXCEPT !.pc = "start", !.t_start = 0,
                                           !.t_end = 0, !.partial_sum = 0,
                                           !.joined = FALSE, !.locks = 0,
                                           !.iter = thr.iter]]
               /\ thr' = [thr EXCEPT
                             !.created = @ + 1,
                             !.launched = @ + 1,
                             !.i = IF thr.i + 1 < config.num_threads
                                      THEN thr.i + 1 ELSE 0,
                             !.pc = IF thr.i + 1 < config.num_threads
                                       THEN "create" ELSE "join"]
          ELSE /\ threads' = threads
               /\ thr' = [thr EXCEPT
                             !.err = CB_ERR_THREAD,
                             !.i = 0,
                             !.pc = IF thr.created > 0 THEN "unwind"
                                                       ELSE "cleanup"]
    /\ UNCHANGED <<partVars, unitVars, envVars, dataset_live, clock, main, session,
                   single, shared, mutex, procVars>>

JoinReturnsEarly(t) == threads[t].pc # "none"

\* pthread_join / WaitForSingleObject returns success only once the thread
\* function has returned
JoinReturns(t) == threads[t].pc = "done"

\* for (j = 0; j < created; j++) cb_thread_join(&threads[j]); goto cleanup;
\* the result of the join is not looked at
T_Unwind ==
    /\ thr.pc = "unwind"
    /\ thr.i < thr.created
    /\ \E ok \in BOOLEAN :
          /\ ok => JoinReturns(thr.i)
          /\ threads' = IF ok THEN [threads EXCEPT ![thr.i].joined = TRUE]
                        ELSE threads
    /\ thr' = [thr EXCEPT
                  !.i = @ + 1,
                  !.pc = IF thr.i + 1 < thr.created THEN "unwind" ELSE "cleanup"]
    /\ UNCHANGED <<partVars, unitVars, envVars, dataset_live, clock, main, session,
                   single, shared, mutex, procVars>>

AfterJoinsIgnoresErr(err) == "record"

\* after the join loop: if (err) goto cleanup;
AfterJoins(err) == IF err # CB_OK THEN "cleanup" ELSE "record"

\* for (i = 0; i < n; i++) { join_err = cb_thread_join(&threads[i]);
\*     if (join_err && !err) err = join_err; }   if (err) goto cleanup;
T_Join ==
    /\ thr.pc = "join"
    /\ thr.i < config.num_threads
    /\ \E ok \in BOOLEAN :
          /\ ok => JoinReturns(thr.i)
          /\ threads' = IF ok THEN [threads EXCEPT ![thr.i].joined = TRUE]
                        ELSE threads
          /\ LET err2 == IF ~ok /\ thr.err = CB_OK THEN CB_ERR_THREAD
                         ELSE thr.err
             IN thr' = [thr EXCEPT
                           !.err = err2,
                           !.i = @ + 1,
                           !.pc = IF thr.i + 1 < config.num_threads THEN "join"
                                  ELSE AfterJoins(err2)]
    /\ UNCHANGED <<partVars, unitVars, envVars, dataset_live, clock, main, session,
                   single, shared, mutex, procVars>>

\* elapsed = shared.latest_end - shared.earliest_start; times[iter] = elapsed;
\* if (iter == 0) verified_sum = shared.sum;  (a later mismatch only warns)
T_Record ==
    /\ thr.pc = "record"
    /\ thr' = [thr EXCEPT
                  !.times = Append(@, shared.latest_end - shared.earliest_start),
                  !.verified_sum = VerifiedSum(thr.iter, shared.sum, @),
                  !.iter = @ + 1,
                  !.pc = "loop"]
    /\ UNCHANGED <<partVars, unitVars, envVars, dataset_live, clock, main, session,
                   single, shared, mutex, threads, procVars>>

\* after the loop: fill the report, err = cb_stats_compute(...), fall into cleanup
T_Report ==
    /\ thr.pc = "loop"
    /\ thr.iter >= config.iterations
    /\ session' = [session EXCEPT !.thread =
                      [label |-> "thread", sum |-> thr.verified_sum,
                       parallelism |-> config.num_threads,
                       stats_iterations |->
                           IF StatsErr(config.iterations) = CB_OK
                              THEN config.iterations ELSE @.stats_iterations]]
    /\ thr' = [thr EXCEPT !.pc = "cleanup", !.err = StatsErr(config.iterations)]
    /\ UNCHANGED <<partVars, unitVars, envVars, dataset_live, clock, main, single,
                   shared, mutex, threads, procVars>>

\* cleanup: if (mutex_initialized) cb_mutex_destroy(&shared_mutex); free(...); return err
T_Cleanup ==
    /\ thr.pc = "cleanup"
    /\ mutex' = IF thr.mutex_initialized THEN [mutex EXCEPT !.state = "destroyed"]
                ELSE mutex
    /\ thr' = [thr EXCEPT !.pc = "returned"]
    /\ UNCHANGED <<partVars, unitVars, envVars, dataset_live, clock, main, session,
                   single, shared, threads, procVars>>

\* cb_bench_thread_run has not returned: params[], shared and shared_mutex,
\* which the worker reaches through its argument, still exist
FrameLive == thr.pc # "returned"

\* double t_start = cb_time_now(); the summation loop over the thread's
\* slice; double t_end = cb_time_now();  (the private part of the thread
\* function, taken as one step: it touches nothing another thread writes)
W_Sum(t) ==
    /\ Running
    /\ FrameLive
    /\ threads[t].pc = "start"
    /\ threads' = [threads EXCEPT ![t] =
                      [@ EXCEPT !.pc = "lock", !.t_start = clock,
                                !.t_end = clock + 1,
                                !.partial_sum =
                                    SumLoop(dataset, threads[t].start,
                                            threads[t].start + threads[t].length, 0)]]
    /\ dataset' = KernelWrites(dataset, threads[t].start, threads[t].length)
    /\ clock' = clock + 2
    /\ UNCHANGED <<partVars, unitVars, platform, config, dataset_live, main, session,
                   single, thr, shared, mutex, procVars>>

MutexNeverBlocks == TRUE

\* pthread_mutex_lock / EnterCriticalSection returns once no thread owns the mutex
MutexFree == mutex.owner = NoOwner

\* cb_mutex_lock(p->mutex);
W_Lock(t) ==
    /\ Running
    /\ FrameLive
    /\ threads[t].pc = "lock"
    /\ MutexFree
    /\ mutex' = [mutex EXCEPT !.owner = t]
    /\ threads' = [threads EXCEPT ![t].pc = "update", ![t].locks = @ + 1]
    /\ UNCHANGED <<partVars, unitVars, envVars, dataset_live, clock, main, session,
                   single, thr, shared, procVars>>

AddOverwrites(sum, partial_sum) == partial_sum

\* p->shared->sum += partial_sum;
AddPartial(sum, partial_sum) == sum + partial_sum

EarliestFirstOnly(earliest_start, t_start) ==
    IF earliest_start < 0 THEN t_start ELSE earliest_start

\* if (earliest_start < 0.0 || t_start < earliest_start) earliest_start = t_start;
EarliestUpdate(earliest_start, t_start) ==
    IF earliest_start < 0 \/ t_start < earliest_start THEN t_start
    ELSE earliest_start

\* if (t_end > latest_end) latest_end = t_end;
LatestUpdate(latest_end, t_end) == IF t_end > latest_end THEN t_end ELSE latest_end

\* the three updates of the critical section, in source order
W_Update(t) ==
    /\ Running
    /\ FrameLive
    /\ threads[t].pc = "update"
    /\ shared' = [sum |-> AddPartial(shared.sum, threads[t].partial_sum),
                  earliest_start |->
                      EarliestUpdate(shared.earliest_start, threads[t].t_start),
                  latest_end |->
                      LatestUpdate(shared.latest_end, threads[t].t_end),
                  inst |-> shared.inst]
    /\ threads' = [threads EXCEPT ![t].pc = "unlock"]
    /\ UNCHANGED <<partVars, unitVars, envVars, dataset_live, clock, main, session,
                   single, thr, mutex, procVars>>

UnlockKeepsOwner(owner) == owner

\* cb_mutex_unlock(p->mutex): the mutex has no owner
UnlockOwner(owner) == NoOwner

\* cb_mutex_unlock(p->mutex); ... return NULL;
W_Unlock(t) ==
    /\ Running
    /\ FrameLive
    /\ threads[t].pc = "unlock"
    /\ mutex' = [mutex EXCEPT !.owner = UnlockOwner(@)]
    /\ threads' = [threads EXCEPT ![t].pc = "done"]
    /\ UNCHANGED <<partVars, unitVars, envVars, dataset_live, clock, main, session,
                   single, thr, shared, procVars>>

Straggler(t) == threads[t].pc \in {"start", "lock", "update", "unlock"}

\* a worker that outlives cb_bench_thread_run dereferences freed params[],
\* the dead `shared` or the destroyed mutex on its next step: undefined
\* behaviour, after which nothing more is known about the threads left
W_UseAfterReturn ==
    /\ Running
    /\ ~FrameLive
    /\ \E t \in ThreadIds : Straggler(t)
    /\ threads' = [t \in DOMAIN threads |->
                      IF Straggler(t) THEN [NoThread EXCEPT !.pc = "undefined"]
                      ELSE threads[t]]
    /\ UNCHANGED <<partVars, unitVars, envVars, dataset_live, clock, main, session,
                   single, thr, shared, mutex, procVars>>

ThreadNext ==
    \/ T_Alloc \/ T_MutexInit \/ T_IterBegin \/ T_Create \/ T_Unwind
    \/ T_Join \/ T_Record \/ T_Report \/ T_Cleanup \/ W_UseAfterReturn
    \/ \E t \in ThreadIds : W_Sum(t) \/ W_Lock(t) \/ W_Update(t) \/ W_Unlock(t)

(***************************************************************************)
(* Process coordinator: cb_bench_process_run.  Strategy A is               *)
(* bench_process_unix.c (fork + pipe), Strategy B is bench_process_win.c   *)
(* (CreateProcess + named shared memory).  Both share the worker table     *)
(* procs[] and the loop locals; `platform` says which one is compiled in.  *)
(***************************************************************************)
\* the locals of cb_bench_process_run, and as a record of the run the first
\* per-worker operation that failed (fail_op) with its loop index (fail_i)
ProcIdle == [pc |-> "idle", err |-> CB_OK, iter |-> 0, i |-> 0, spawned |-> 0,
             offset |-> 0, iter_start |-> 0, iter_sum |-> 0,
             verified_sum |-> 0, times |-> << >>, shm_created |-> FALSE,
             fail_op |-> "none", fail_i |-> 0, launched |-> 0]

\* st: "none" (never spawned), "run", "opened" (Strategy B: segment mapped),
\* "wrote" (result delivered), "zombie" (terminated, not yet waited for),
\* "reaped" (a wait on it has succeeded).  iter: the iteration that spawned
\* it.  log: the kill and wait calls the coordinator has issued on it since
\* it was spawned, a wait that returned an error as "wait_failed".
NoProc == [st |-> "none", start |-> 0, length |-> 0, status |-> 0, iter |-> 0,
          log |-> << >>]

\* one cb_pipe_t of the coordinator plus the kernel object behind it:
\* rd, wr   the coordinator's read and write descriptors are open
\* cwr      the worker's inherited write descriptor is open
\* inh      the other workers that hold a copy of the write descriptor,
\*          inherited at their fork
\* buf      the Result records written and not yet read
\* nwr, nrd the number of Result records written to it and read from it
\*          since it was created
NoPipe == [rd |-> FALSE, wr |-> FALSE, cwr |-> FALSE, inh |-> {},
           buf |-> << >>, nwr |-> 0, nrd |-> 0]

\* fork() of worker `child`: the child gets a copy of every descriptor that
\* is open in the coordinator; its own channel's write end is cwr
Forked(ps, child) ==
    [j \in DOMAIN ps |->
        IF j = child THEN [ps[j] EXCEPT !.cwr = TRUE]
        ELSE IF ps[j].wr THEN [ps[j] EXCEPT !.inh = @ \cup {child}]
        ELSE ps[j]]

\* worker `child` has terminated or closed its descriptors before _exit:
\* none of its copies is open any more
Closed(ps, child) ==
    [j \in DOMAIN ps |->
        IF j = child THEN [ps[j] EXCEPT !.cwr = FALSE, !.inh = @ \ {child}]
        ELSE [ps[j] EXCEPT !.inh = @ \ {child}]]

NoShm == [state |-> "none", data |-> << >>, slots |-> << >>]

\* a result slot that holds no worker's result
NoWriter == -1

\* a result slot of the segment: the cb_result_t stored in it (sum), and as
\* a record of the run which worker of which iteration stored it
ZeroSlot == [sum |-> 0, iter |-> NoWriter, id |-> NoWriter]

SlotKept(slot) == slot

\* memset(shm_result(shm_base, config->array_length, i), 0, sizeof(cb_result_t));
ClearSlot(slot) == ZeroSlot

SlotZero(worker_id) == 0

\* shm_result(base, wa->array_size, wa->worker_id): the slot a worker stores into
SlotOf(worker_id) == worker_id

ProcIds == 0..(config.num_processes - 1)

\* cb_bench_process_run is executing; a worker is followed until the
\* coordinator that spawned it returns
CoordLive == prc.pc \notin {"idle", "returned"}

Live(p) == p.st \in {"run", "opened", "wrote"}

\* the exit status a terminated-by-force worker reports: WIFEXITED is false
\* on Unix (-1), TerminateProcess(h, 1) on Windows
KilledStatus == IF platform = "unix" THEN -1 ELSE 1

\* ---- operations of the platform layer on a worker process ----

\* cb_process_kill: SIGKILL / TerminateProcess; a live worker terminates
KillEffect(p, ok) ==
    IF ok /\ Live(p) THEN [p EXCEPT !.st = "zombie", !.status = KilledStatus]
    ELSE p

\* waitpid(pid, &wstatus, 0) / WaitForSingleObject(h, INFINITE) return
\* success only once the worker has terminated
WaitReturns(p) == p.st = "zombie"

WaitErrDropped(err, wait_err) == err

\* if (wait_err) { if (!err) err = wait_err; continue; }
WaitErr(err, wait_err) == IF err = CB_OK THEN wait_err ELSE err

\* ---- the teardown loop shared by both strategies ----
\* cleanup_children: for (j = 0; j < spawned; j++) {
\*     cb_process_kill(&procs[j]); cb_process_wait(&procs[j], NULL); }  goto cleanup;
TeardownSkipsLast(j, spawned) == j < spawned - 1

\* the loop test j < spawned
TeardownMore(j, spawned) == j < spawned

TeardownErrReplaces(err, secondary) ==
    IF secondary # CB_OK THEN secondary ELSE err

\* cb_process_kill(&procs[j]); cb_process_wait(&procs[j], NULL); as
\* statements: what they return is not assigned to err
TeardownErr(err, secondary) == err

P_Kill ==
    /\ prc.pc = "kill"
    /\ \E ok \in BOOLEAN :
          /\ procs' = [procs EXCEPT ![prc.i] =
                          [KillEffect(@, ok) EXCEPT !.log = Append(@, "kill")]]
          /\ pipes' = IF platform = "unix" /\ ~Live(KillEffect(procs[prc.i], ok))
                      THEN Closed(pipes, prc.i)
                      ELSE pipes
          /\ prc' = [prc EXCEPT
                        !.pc = "killwait",
                        !.err = TeardownErr(@, IF ok THEN CB_OK
                                               ELSE CB_ERR_PLATFORM)]
    /\ UNCHANGED <<partVars, unitVars, envVars, dataset_live, clock, main, session,
                   single, threadVars, shm>>

P_KillWait ==
    /\ prc.pc = "killwait"
    /\ \E ok \in BOOLEAN :
          /\ ok => WaitReturns(procs[prc.i])
          /\ procs' = [procs EXCEPT ![prc.i] =
                          [@ EXCEPT !.st = IF ok THEN "reaped" ELSE @,
                                    !.log = Append(@, IF ok THEN "wait"
                                                        ELSE "wait_failed")]]
          /\ prc' = [prc EXCEPT
                        !.i = @ + 1,
                        !.err = TeardownErr(@, IF ok THEN CB_OK
                                               ELSE CB_ERR_PLATFORM),
                        !.pc = IF TeardownMore(prc.i + 1, prc.spawned)
                                  THEN "kill" ELSE "cleanup"]
    /\ UNCHANGED <<partVars, unitVars, envVars, dataset_live, clock, main, session,
                   single, threadVars, pipes, shm>>

NoTeardown(spawned) == "cleanup"

\* where `goto cleanup_children` lands: the first kill, or cleanup at once
\* when nothing counts as spawned
TeardownEntry(spawned) ==
    IF TeardownMore(0, spawned) THEN "kill" ELSE "cleanup"

WaitLoopStopsOnError(i, spawned, ok) == ~ok \/ ~(i + 1 < spawned)

\* the wait loop is over after its last index; a failed wait only records
\* the error and goes on to the next worker (`continue`)
WaitLoopLast(i, spawned, ok) == ~(i + 1 < spawned)

StatusIgnored(plat, err, status) == err

\* if (status != 0): Strategy A prints a warning; Strategy B prints it and
\* sets `if (!err) err = CB_ERR_PLATFORM`
StatusErr(plat, err, status) ==
    IF plat = "win" /\ status # 0 /\ err = CB_OK THEN CB_ERR_PLATFORM ELSE err

AfterWaitsIgnoresErr(err) == "record"

\* after the wait loop: if (err) goto cleanup;
AfterWaits(err) == IF err # CB_OK THEN "cleanup" ELSE "record"

\* a worker dies on its own before finishing (crash, external signal): the
\* kernel closes its descriptors
P_Crash(i) ==
    /\ CoordLive
    /\ Live(procs[i])
    /\ procs' = [procs EXCEPT ![i] =
                    [@ EXCEPT !.st = "zombie", !.status = KilledStatus]]
    /\ pipes' = IF platform = "unix" THEN Closed(pipes, i) ELSE pipes
    /\ UNCHANGED <<partVars, unitVars, envVars, dataset_live, clock, main, session,
                   single, threadVars, prc, shm>>

\* ---- Strategy A: bench_process_unix.c ----

\* pipes, procs, work, times = calloc(...); on NULL: err = CB_ERR_ALLOC; goto cleanup
A_Alloc ==
    /\ platform = "unix"
    /\ prc.pc = "alloc"
    /\ \E ok \in BOOLEAN :
          prc' = IF ok THEN [prc EXCEPT !.pc = "loop", !.verified_sum = 0]
                 ELSE [prc EXCEPT !.pc = "cleanup", !.err = CB_ERR_ALLOC]
    /\ UNCHANGED <<partVars, unitVars, envVars, dataset_live, clock, main, session,
                   single, threadVars, procs, pipes, shm>>

\* top of an iteration: iter_start = cb_time_now(); iter_sum = 0; spawned = 0; offset = 0
A_IterBegin ==
    /\ platform = "unix"
    /\ prc.pc = "loop"
    /\ prc.iter < config.iterations
    /\ prc' = [prc EXCEPT !.pc = "pipe", !.iter_start = clock, !.iter_sum = 0,
                          !.spawned = 0, !.offset = 0, !.i = 0]
    /\ clock' = clock + 1
    /\ UNCHANGED <<partVars, unitVars, envVars, dataset_live, main, session, single,
                   threadVars, procs, pipes, shm>>

\* err = cb_pipe_create(&pipes[i]); if (err) goto cleanup_children;
A_PipeCreate ==
    /\ platform = "unix"
    /\ prc.pc = "pipe"
    /\ \E ok \in BOOLEAN :
          IF ok
          THEN /\ pipes' = [pipes EXCEPT ![prc.i] =
                               [rd |-> TRUE, wr |-> TRUE, cwr |-> FALSE,
                                inh |-> {}, buf |-> << >>, nwr |-> 0,
                                nrd |-> 0]]
               /\ prc' = [prc EXCEPT !.pc = "spawn"]
          ELSE /\ pipes' = pipes
               /\ prc' = [prc EXCEPT !.err = CB_ERR_PIPE, !.i = 0,
                                     !.fail_op = "pipe_create", !.fail_i = prc.i,
                                     !.pc = TeardownEntry(prc.spawned)]
    /\ UNCHANGED <<partVars, unitVars, envVars, dataset_live, clock, main, session,
                   single, threadVars, procs, shm>>

\* work[i] = {dataset, offset, chunk, &pipes[i]};
\* err = cb_process_spawn(&procs[i], NULL, child_fn, &work[i]);
\* if (err) { close both ends of pipes[i]; goto cleanup_children; }
A_Spawn ==
    /\ platform = "unix"
    /\ prc.pc = "spawn"
    /\ \E ok \in BOOLEAN :
          IF ok
          THEN /\ procs' = [procs EXCEPT ![prc.i] =
                               [st |-> "run", start |-> prc.offset,
                                length |-> ChunkProcUnix(config.array_length,
                                              config.num_processes, prc.i),
                                status |-> 0, iter |-> prc.iter, log |-> << >>]]
               /\ pipes' = Forked(pipes, prc.i)
               /\ prc' = [prc EXCEPT !.pc = "closew", !.launched = @ + 1]
          ELSE /\ procs' = procs
               /\ pipes' = [pipes EXCEPT ![prc.i].rd = FALSE, ![prc.i].wr = FALSE]
               /\ prc' = [prc EXCEPT !.err = CB_ERR_FORK, !.i = 0,
                                     !.fail_op = "spawn", !.fail_i = prc.i,
                                     !.pc = TeardownEntry(prc.spawned)]
    /\ UNCHANGED <<partVars, unitVars, envVars, dataset_live, clock, main, session,
                   single, threadVars, shm>>

ReadAfterEachSpawn(i, n) == "read"

\* the test of `for (i = 0; i < n; i++)` after worker i: the next channel,
\* or the read loop once all n workers are spawned
FanOutNext(i, n) == IF i + 1 < n THEN "pipe" ELSE "read"

CloseWriteSkipped(wr) == wr

\* cb_pipe_close_write(&pipes[i]): the coordinator's write descriptor is closed
CloseWrite(wr) == FALSE

\* cb_pipe_close_write(&pipes[i]); spawned++; offset += chunk;  and the loop test
A_CloseWrite ==
    /\ platform = "unix"
    /\ prc.pc = "closew"
    /\ pipes' = [pipes EXCEPT ![prc.i].wr = CloseWrite(@)]
    /\ prc' = [prc EXCEPT
                  !.spawned = @ + 1,
                  !.offset = @ + ChunkProcUnix(config.array_length,
                                               config.num_processes, prc.i),
                  !.i = IF prc.i + 1 < config.num_processes THEN prc.i + 1 ELSE 0,
                  !.pc = FanOutNext(prc.i, config.num_processes)]
    /\ UNCHANGED <<partVars, unitVars, envVars, dataset_live, clock, main, session,
                   single, threadVars, procs, shm>>

\* read() finds end-of-file: nothing buffered and no write descriptor open
\* in any process
PipeEof(p) == p.buf = << >> /\ ~p.wr /\ ~p.cwr /\ p.inh = {}

\* err = cb_pipe_read(&pipes[i], &child_result, sizeof(child_result));
\* if (err) goto cleanup_children;  cb_pipe_close_read(&pipes[i]); iter_sum += sum;
\* after the last read the wait loop starts
A_Read ==
    /\ platform = "unix"
    /\ prc.pc = "read"
    /\ \/ /\ pipes[prc.i].buf # << >>
          /\ pipes' = [pipes EXCEPT ![prc.i].buf = Tail(@), ![prc.i].rd = FALSE,
                                    ![prc.i].nrd = @ + 1]
          /\ prc' = [prc EXCEPT
                        !.iter_sum = @ + Head(pipes[prc.i].buf).sum,
                        !.i = IF prc.i + 1 < config.num_processes
                                 THEN prc.i + 1 ELSE 0,
                        !.pc = IF prc.i + 1 < config.num_processes THEN "read"
                                                                   ELSE "wait"]
       \/ /\ PipeEof(pipes[prc.i])
          /\ pipes' = pipes
          /\ prc' = [prc EXCEPT !.err = CB_ERR_PIPE, !.i = 0,
                                !.fail_op = "read", !.fail_i = prc.i,
                                !.pc = TeardownEntry(prc.spawned)]
    /\ UNCHANGED <<partVars, unitVars, envVars, dataset_live, clock, main, session,
                   single, threadVars, procs, shm>>

\* for (i = 0; i < spawned; i++) { wait_err = cb_process_wait(&procs[i], &status);
\*     if (wait_err) { if (!err) err = wait_err; continue; }
\*     if (status != 0) warn; }   spawned = 0;  if (err) goto cleanup;
A_Wait ==
    /\ platform = "unix"
    /\ prc.pc = "wait"
    /\ prc.i < prc.spawned
    /\ \E ok \in BOOLEAN :
          /\ ok => WaitReturns(procs[prc.i])
          /\ procs' = [procs EXCEPT ![prc.i] =
                          [@ EXCEPT !.st = IF ok THEN "reaped" ELSE @,
                                    !.log = Append(@, IF ok THEN "wait"
                                                        ELSE "wait_failed")]]
          /\ LET err2 == IF ~ok THEN WaitErr(prc.err, CB_ERR_PLATFORM)
                         ELSE StatusErr(platform, prc.err, procs[prc.i].status)
                 last == WaitLoopLast(prc.i, prc.spawned, ok)
             IN prc' = [prc EXCEPT
                           !.err = err2,
                           !.fail_op = IF ~ok /\ @ = "none" THEN "wait" ELSE @,
                           !.fail_i = IF ~ok /\ prc.fail_op = "none"
                                         THEN prc.i ELSE @,
                           !.i = IF last THEN 0 ELSE prc.i + 1,
                           !.spawned = IF last THEN 0 ELSE @,
                           !.pc = IF ~last THEN "wait" ELSE AfterWaits(err2)]
    /\ UNCHANGED <<partVars, unitVars, envVars, dataset_live, clock, main, session,
                   single, threadVars, pipes, shm>>

\* iter_end = cb_time_now(); times[iter] = iter_end - iter_start;
\* if (iter == 0) verified_sum = iter_sum;  (a later mismatch only warns)
A_Record ==
    /\ platform = "unix"
    /\ prc.pc = "record"
    /\ prc' = [prc EXCEPT
                  !.times = Append(@, clock - prc.iter_start),
                  !.verified_sum = VerifiedSum(prc.iter, prc.iter_sum, @),
                  !.iter = @ + 1,
                  !.pc = "loop"]
    /\ clock' = clock + 1
    /\ UNCHANGED <<partVars, unitVars, envVars, dataset_live, main, session, single,
                   threadVars, procs, pipes, shm>>

\* after the loop: fill the report, err = cb_stats_compute(...), fall into cleanup
A_Report ==
    /\ platform = "unix"
    /\ prc.pc = "loop"
    /\ prc.iter >= config.iterations
    /\ session' = [session EXCEPT !.process =
                      [label |-> "process", sum |-> prc.verified_sum,
                       parallelism |-> config.num_processes,
                       stats_iterations |->
                           IF StatsErr(config.iterations) = CB_OK
                              THEN config.iterations ELSE @.stats_iterations]]
    /\ prc' = [prc EXCEPT !.pc = "cleanup", !.err = StatsErr(config.iterations)]
    /\ UNCHANGED <<partVars, unitVars, envVars, dataset_live, clock, main, single,
                   threadVars, procs, pipes, shm>>

\* cleanup: free(pipes); free(procs); free(work); free(times); return err;
A_Cleanup ==
    /\ platform = "unix"
    /\ prc.pc = "cleanup"
    /\ prc' = [prc EXCEPT !.pc = "returned"]
    /\ UNCHANGED <<partVars, unitVars, envVars, dataset_live, clock, main, session,
                   single, threadVars, procs, pipes, shm>>

WritesAgain == "run"

\* child_fn after its one cb_pipe_write: straight on to the closes and _exit
AfterWrite == "wrote"

\* child_fn: result = cb_array_sum(dataset, start, length);
\* cb_pipe_write(work->pipe, &result, sizeof(result));  (its result is not looked at)
C_Write(i) ==
    /\ CoordLive
    /\ platform = "unix"
    /\ procs[i].st = "run"
    /\ \E ok \in BOOLEAN :
          pipes' = IF ok
                   THEN [pipes EXCEPT ![i].buf =
                            Append(@, cb_array_sum(dataset, procs[i].start,
                                                   procs[i].length, clock)),
                                      ![i].nwr = @ + 1]
                   ELSE pipes
    /\ procs' = [procs EXCEPT ![i].st = AfterWrite]
    /\ clock' = clock + 2
    /\ UNCHANGED <<partVars, unitVars, envVars, dataset_live, main, session, single,
                   threadVars, prc, shm>>

ChildReturns == "escaped"

\* _exit(EXIT_SUCCESS) at the end of child_fn, backed by _exit(EXIT_FAILURE)
\* after the call of child_fn in cb_process_spawn: the child terminates and
\* never returns from cb_process_spawn into the coordinator's loop
ChildEnd == "zombie"

\* child_fn: cb_pipe_close_write; cb_pipe_close_read; _exit(EXIT_SUCCESS);
C_Exit(i) ==
    /\ CoordLive
    /\ platform = "unix"
    /\ procs[i].st = "wrote"
    /\ pipes' = Closed(pipes, i)
    /\ procs' = [procs EXCEPT ![i] = [@ EXCEPT !.st = ChildEnd, !.status = 0]]
    /\ UNCHANGED <<partVars, unitVars, envVars, dataset_live, clock, main, session,
                   single, threadVars, prc, shm>>

\* ---- Strategy B: bench_process_win.c ----

\* err = cb_get_exe_path(exe_path, sizeof(exe_path)); if (err) return err;
B_ExePath ==
    /\ platform = "win"
    /\ prc.pc = "exe_path"
    /\ \E ok \in BOOLEAN :
          prc' = IF ok THEN [prc EXCEPT !.pc = "alloc"]
                 ELSE [prc EXCEPT !.pc = "returned", !.err = CB_ERR_PLATFORM]
    /\ UNCHANGED <<partVars, unitVars, envVars, dataset_live, clock, main, session,
                   single, threadVars, procs, pipes, shm>>

\* procs, times = calloc(...); on NULL: err = CB_ERR_ALLOC; goto cleanup
B_Alloc ==
    /\ platform = "win"
    /\ prc.pc = "alloc"
    /\ \E ok \in BOOLEAN :
          prc' = IF ok THEN [prc EXCEPT !.pc = "shm_create"]
                 ELSE [prc EXCEPT !.pc = "cleanup", !.err = CB_ERR_ALLOC]
    /\ UNCHANGED <<partVars, unitVars, envVars, dataset_live, clock, main, session,
                   single, threadVars, procs, pipes, shm>>

\* err = cb_shared_mem_create(&shm, shm_name, total_size); if (err) goto cleanup;
\* shm_created = true; memcpy(shm_dataset(shm_base), dataset, ...); verified_sum = 0
B_ShmCreate ==
    /\ platform = "win"
    /\ prc.pc = "shm_create"
    /\ \E ok \in BOOLEAN :
          IF ok
          THEN /\ shm' = [state |-> "created", data |-> dataset,
                          slots |-> [w \in ProcIds |-> ZeroSlot]]
               /\ prc' = [prc EXCEPT !.pc = "loop", !.shm_created = TRUE,
                                     !.verified_sum = 0]
          ELSE /\ shm' = shm
               /\ prc' = [prc EXCEPT !.pc = "cleanup", !.err = CB_ERR_SHM]
    /\ UNCHANGED <<partVars, unitVars, envVars, dataset_live, clock, main, session,
                   single, threadVars, procs, pipes>>

\* top of an iteration: iter_start = cb_time_now(); iter_sum = 0; spawned = 0;
\* memset every result slot to 0; offset = 0
B_IterBegin ==
    /\ platform = "win"
    /\ prc.pc = "loop"
    /\ prc.iter < config.iterations
    /\ shm' = [shm EXCEPT !.slots = [w \in ProcIds |-> ClearSlot(shm.slots[w])]]
    /\ prc' = [prc EXCEPT !.pc = "spawn", !.iter_start = clock, !.iter_sum = 0,
                          !.spawned = 0, !.offset = 0, !.i = 0]
    /\ clock' = clock + 1
    /\ UNCHANGED <<partVars, unitVars, envVars, dataset_live, main, session, single,
                   threadVars, procs, pipes>>

\* child_argv = {exe, "--worker", i, shm_name, array_length, n, offset, chunk};
\* err = cb_process_spawn(&procs[i], child_argv, NULL, NULL);
\* if (err) goto cleanup_children;  spawned++; offset += chunk;
B_Spawn ==
    /\ platform = "win"
    /\ prc.pc = "spawn"
    /\ \E e \in {CB_OK, CB_ERR_FORK} :
          IF e = CB_OK
          THEN /\ procs' = [procs EXCEPT ![prc.i] =
                               [st |-> "run", start |-> prc.offset,
                                length |-> ChunkProcWin(config.array_length,
                                              config.num_processes, prc.i),
                                status |-> 0, iter |-> prc.iter, log |-> << >>]]
               /\ prc' = [prc EXCEPT
                             !.spawned = @ + 1,
                             !.launched = @ + 1,
                             !.offset = @ + ChunkProcWin(config.array_length,
                                                config.num_processes, prc.i),
                             !.i = IF prc.i + 1 < config.num_processes
                                      THEN prc.i + 1 ELSE 0,
                             !.pc = IF prc.i + 1 < config.num_processes
                                       THEN "spawn" ELSE "wait"]
          ELSE /\ procs' = procs
               /\ prc' = [prc EXCEPT !.err = e, !.i = 0,
                                     !.fail_op = "spawn", !.fail_i = prc.i,
                                     !.pc = TeardownEntry(prc.spawned)]
    /\ UNCHANGED <<partVars, unitVars, envVars, dataset_live, clock, main, session,
                   single, threadVars, pipes, shm>>

\* for (i = 0; i < spawned; i++) { wait_err = cb_process_wait(&procs[i], &status);
\*     if (wait_err) { if (!err) err = wait_err; continue; }
\*     if (status != 0) { warn; if (!err) err = CB_ERR_PLATFORM; } }
\* spawned = 0;  if (err) goto cleanup;
B_Wait ==
    /\ platform = "win"
    /\ prc.pc = "wait"
    /\ prc.i < prc.spawned
    /\ \E ok \in BOOLEAN :
          /\ ok => WaitReturns(procs[prc.i])
          /\ procs' = [procs EXCEPT ![prc.i] =
                          [@ EXCEPT !.st = IF ok THEN "reaped" ELSE @,
                                    !.log = Append(@, IF ok THEN "wait"
                                                        ELSE "wait_failed")]]
          /\ LET err2 == IF ~ok THEN WaitErr(prc.err, CB_ERR_PLATFORM)
                         ELSE StatusErr(platform, prc.err, procs[prc.i].status)
                 last == WaitLoopLast(prc.i, prc.spawned, ok)
             IN prc' = [prc EXCEPT
                           !.err = err2,
                           !.fail_op = IF ~ok /\ @ = "none" THEN "wait" ELSE @,
                           !.fail_i = IF ~ok /\ prc.fail_op = "none"
                                         THEN prc.i ELSE @,
                           !.i = IF last THEN 0 ELSE prc.i + 1,
                           !.spawned = IF last THEN 0 ELSE @,
                           !.pc = IF ~last THEN "wait" ELSE AfterWaits(err2)]
    /\ UNCHANGED <<partVars, unitVars, envVars, dataset_live, clock, main, session,
                   single, threadVars, pipes, shm>>

RECURSIVE SlotSum(_, _, _)
\* for (i = 0; i < n; i++) iter_sum += shm_result(shm_base, array_length, i)->sum;
SlotSum(slots, i, n) ==
    IF i < n THEN slots[i].sum + SlotSum(slots, i + 1, n) ELSE 0

\* read the result slots; iter_end = cb_time_now(); times[iter] = ...;
\* if (iter == 0) verified_sum = iter_sum;  (a later mismatch only warns)
B_Record ==
    /\ platform = "win"
    /\ prc.pc = "record"
    /\ LET sum == prc.iter_sum + SlotSum(shm.slots, 0, config.num_processes) IN
          prc' = [prc EXCEPT
                     !.iter_sum = sum,
                     !.times = Append(@, clock - prc.iter_start),
                     !.verified_sum = VerifiedSum(prc.iter, sum, @),
                     !.iter = @ + 1,
                     !.pc = "loop"]
    /\ clock' = clock + 1
    /\ UNCHANGED <<partVars, unitVars, envVars, dataset_live, main, session, single,
                   threadVars, procs, pipes, shm>>

\* after the loop: fill the report, err = cb_stats_compute(...), fall into cleanup
B_Report ==
    /\ platform = "win"
    /\ prc.pc = "loop"
    /\ prc.iter >= config.iterations
    /\ session' = [session EXCEPT !.process =
                      [label |-> "process", sum |-> prc.verified_sum,
                       parallelism |-> config.num_processes,
                       stats_iterations |->
                           IF StatsErr(config.iterations) = CB_OK
                              THEN config.iterations ELSE @.stats_iterations]]
    /\ prc' = [prc EXCEPT !.pc = "cleanup", !.err = StatsErr(config.iterations)]
    /\ UNCHANGED <<partVars, unitVars, envVars, dataset_live, clock, main, single,
                   threadVars, procs, pipes, shm>>

\* cleanup: if (shm_created) cb_shared_mem_destroy(&shm); free(procs); free(times); return err;
B_Cleanup ==
    /\ platform = "win"
    /\ prc.pc = "cleanup"
    /\ shm' = IF prc.shm_created THEN [shm EXCEPT !.state = "destroyed"] ELSE shm
    /\ prc' = [prc EXCEPT !.pc = "returned"]
    /\ UNCHANGED <<partVars, unitVars, envVars, dataset_live, clock, main, session,
                   single, threadVars, procs, pipes>>

\* cb_bench_process_worker_main: err = cb_shared_mem_open(&shm, name, total_size);
\* if (err) return 1;
WB_Open(i) ==
    /\ CoordLive
    /\ platform = "win"
    /\ procs[i].st = "run"
    /\ \E ok \in BOOLEAN :
          /\ ok => shm.state = "created"
          /\ procs' = [procs EXCEPT ![i] =
                          IF ok THEN [@ EXCEPT !.st = "opened"]
                          ELSE [@ EXCEPT !.st = "zombie", !.status = 1]]
    /\ UNCHANGED <<partVars, unitVars, envVars, dataset_live, clock, main, session,
                   single, threadVars, prc, pipes, shm>>

\* result = cb_array_sum(data, wa->start, wa->length);
\* *shm_result(base, wa->array_size, wa->worker_id) = result;
WB_Write(i) ==
    /\ CoordLive
    /\ platform = "win"
    /\ procs[i].st = "opened"
    /\ shm' = [shm EXCEPT !.slots[SlotOf(i)] =
                  [sum |-> cb_array_sum(shm.data, procs[i].start,
                                        procs[i].length, clock).sum,
                   iter |-> procs[i].iter, id |-> i]]
    /\ procs' = [procs EXCEPT ![i].st = "wrote"]
    /\ clock' = clock + 2
    /\ UNCHANGED <<partVars, unitVars, envVars, dataset_live, main, session, single,
                   threadVars, prc, pipes>>

\* cb_shared_mem_destroy(&shm); return 0;
WB_Exit(i) ==
    /\ CoordLive
    /\ platform = "win"
    /\ procs[i].st = "wrote"
    /\ procs' = [procs EXCEPT ![i] = [@ EXCEPT !.st = "zombie", !.status = 0]]
    /\ UNCHANGED <<partVars, unitVars, envVars, dataset_live, clock, main, session,
                   single, threadVars, prc, pipes, shm>>

ProcNext ==
    \/ A_Alloc \/ A_IterBegin \/ A_PipeCreate \/ A_Spawn \/ A_CloseWrite
    \/ A_Read \/ A_Wait \/ A_Record \/ A_Report \/ A_Cleanup
    \/ B_ExePath \/ B_Alloc \/ B_ShmCreate \/ B_IterBegin \/ B_Spawn
    \/ B_Wait \/ B_Record \/ B_Report \/ B_Cleanup
    \/ P_Kill \/ P_KillWait
    \/ \E i \in ProcIds :
          C_Write(i) \/ C_Exit(i) \/ WB_Open(i) \/ WB_Write(i) \/ WB_Exit(i)
              \/ P_Crash(i)

(***************************************************************************)
(* main (main.c), from step 6 on: the dataset exists and the session's     *)
(* metadata is filled in.                                                  *)
(***************************************************************************)
\* the arguments a coordinator is invoked with: (dataset, &config, &session.x)
Call(fn) == [fn |-> fn, dataset |-> dataset, config |-> config]

ContinuesAfterError(err, next) == next

\* if (err) { cb_perror(...); goto cleanup; }  otherwise the next step of main
AfterCoordinator(err, next) == IF err # CB_OK THEN "cleanup" ELSE next

\* err = cb_bench_single_run(dataset, &config, &session.single);
M_CallSingle ==
    /\ main.pc = "call_single"
    /\ single' = [SingleIdle EXCEPT !.pc = "alloc"]
    /\ main' = [main EXCEPT !.pc = "in_single",
                            !.calls = Append(@, Call("single"))]
    /\ UNCHANGED <<partVars, unitVars, envVars, dataset_live, clock, session,
                   threadVars, procVars>>

\* if (err) goto cleanup;  err = cb_bench_process_run(dataset, &config, &session.process);
M_SingleReturned ==
    /\ main.pc = "in_single"
    /\ single.pc = "returned"
    /\ IF AfterCoordinator(single.err, "in_process") = "cleanup"
       THEN /\ main' = [main EXCEPT !.pc = "cleanup", !.err = single.err]
            /\ prc' = prc
       ELSE /\ main' = [main EXCEPT !.pc = "in_process", !.err = single.err,
                                    !.calls = Append(@, Call("process"))]
            /\ prc' = [ProcIdle EXCEPT
                          !.pc = IF platform = "unix" THEN "alloc" ELSE "exe_path"]
    /\ UNCHANGED <<partVars, unitVars, envVars, dataset_live, clock, session, single,
                   threadVars, procs, pipes, shm>>

\* what is left of a coordinator once main has its return value: the frame
\* (loop locals, times[], the worker table) no longer exists, only err does
ProcReturned(err) == [ProcIdle EXCEPT !.pc = "returned", !.err = err]

ThreadReturned(err) == [ThreadIdle EXCEPT !.pc = "returned", !.err = err]

\* if (err) goto cleanup;  err = cb_bench_thread_run(dataset, &config, &session.thread);
M_ProcessReturned ==
    /\ main.pc = "in_process"
    /\ prc.pc = "returned"
    /\ IF AfterCoordinator(prc.err, "in_thread") = "cleanup"
       THEN /\ main' = [main EXCEPT !.pc = "cleanup", !.err = prc.err]
            /\ thr' = thr
       ELSE /\ main' = [main EXCEPT !.pc = "in_thread", !.err = prc.err,
                                    !.calls = Append(@, Call("thread"))]
            /\ thr' = [ThreadIdle EXCEPT !.pc = "alloc"]
    /\ prc' = ProcReturned(prc.err)
    /\ procs' = [i \in ProcIds |-> NoProc]
    /\ pipes' = [i \in ProcIds |-> NoPipe]
    /\ shm' = NoShm
    /\ UNCHANGED <<partVars, unitVars, envVars, dataset_live, clock, session, single,
                   shared, mutex, threads>>

\* if (err) goto cleanup;  otherwise steps 7 and 8.  A thread that is still
\* running stays in the model: it reads the dataset main is about to destroy
M_ThreadReturned ==
    /\ main.pc = "in_thread"
    /\ thr.pc = "returned"
    /\ main' = [main EXCEPT !.pc = AfterCoordinator(thr.err, "output"),
                            !.err = thr.err]
    /\ thr' = ThreadReturned(thr.err)
    /\ shared' = SharedReset
    /\ threads' = [t \in DOMAIN threads |->
                      [NoThread EXCEPT !.pc = IF Straggler(t) THEN threads[t].pc
                                              ELSE "none"]]
    /\ UNCHANGED <<partVars, unitVars, envVars, dataset_live, clock, session, single,
                   mutex, procVars>>

\* cb_output_terminal: PASS iff single.sum == process.sum && single.sum == thread.sum
Correctness(s) ==
    IF s.single.sum = s.process.sum /\ s.single.sum = s.thread.sum
    THEN "PASS" ELSE "FAIL"

\* step 7: cb_output_terminal(&session); step 8: the report files, whose
\* failure is not fatal (err = CB_OK either way)
M_Output ==
    /\ main.pc = "output"
    /\ main' = [main EXCEPT !.pc = "cleanup", !.err = CB_OK,
                            !.correctness = Correctness(session)]
    /\ UNCHANGED <<partVars, unitVars, envVars, dataset_live, clock, session, single,
                   threadVars, procVars>>

\* cleanup: cb_dataset_destroy(dataset); return (err != CB_OK) ? 1 : 0;
M_Cleanup ==
    /\ main.pc = "cleanup"
    /\ dataset_live' = FALSE
    /\ main' = [main EXCEPT !.pc = "exit", !.destroys = @ + 1,
                            !.rc = IF main.err # CB_OK THEN 1 ELSE 0]
    /\ UNCHANGED <<partVars, unitVars, envVars, clock, session, single, threadVars,
                   procVars>>

MainNext ==
    \/ M_CallSingle \/ M_SingleReturned \/ M_ProcessReturned
    \/ M_ThreadReturned \/ M_Output \/ M_Cleanup

(***************************************************************************)
(* cb_pipe_read (platform_unix.c) at the level of bytes: one call for      *)
(* `size` bytes on a pipe whose other end a peer writes to and closes.     *)
(***************************************************************************)
\* pc        "loop" inside while (remaining > 0), "returned" after return
\* size      the number of bytes asked for; remaining as in the code
\* consumed  the bytes read() has handed over so far
\* ret       the return value; cause: what ended the call
\* eintr     how many read() calls were interrupted (EINTR) so far
\* avail     the bytes buffered in the pipe
\* towrite   the bytes the peer will still write; wopen: a write end is open
\* a pointer argument: null, or pointing at the value v
Null == [null |-> TRUE, v |-> << >>]

Ptr(v) == [null |-> FALSE, v |-> v]

StatsIdle == [pc |-> "idle", times |-> Null, count |-> 0, stats_out |-> Null,
              before |-> Null, ret |-> CB_OK]

KernelIdle == [pc |-> "idle", mode |-> "none", plat |-> "none", data |-> << >>,
               len |-> 0, n |-> 0, i |-> 0, offset |-> 0, slices |-> << >>,
               total |-> 0, whole |-> 0]

\* neither strategy of the side-by-side run has started
PairIdle == [pc |-> "idle"]

VerifyIdle == [pc |-> "idle", coord |-> "none", iterations |-> 0, iter |-> 0,
               verified_sum |-> 0, sums |-> << >>, warnings |-> 0,
               err |-> CB_OK, report_sum |-> -1]

ReadIdle == [pc |-> "idle", size |-> 0, remaining |-> 0, consumed |-> 0,
             ret |-> CB_OK, cause |-> "none", eintr |-> 0, avail |-> 0,
             towrite |-> 0, wopen |-> FALSE, reads |-> 0]

(***************************************************************************)
(* Spec: the whole run of main on one platform, one configuration and one  *)
(* dataset.                                                                *)
(***************************************************************************)
PartIdle ==
    /\ p_len = 0
    /\ p_n = 0
    /\ p_i = [m \in Modes |-> 0]
    /\ p_offset = [m \in Modes |-> 0]
    /\ p_slices = [m \in Modes |-> << >>]

Init ==
    /\ PartIdle
    /\ platform \in {"unix", "win"}
    /\ config \in [array_length : 1..MaxLen, num_processes : 1..MaxProcs,
                   num_threads : 1..MaxThreads, iterations : 1..MaxIter]
    /\ \E seed \in Seeds : dataset = DatasetOf(seed, config.array_length)
    /\ dataset_live = TRUE
    /\ clock = 0
    /\ main = [pc |-> "call_single", err |-> CB_OK, rc |-> 0,
               correctness |-> "none", calls |-> << >>, destroys |-> 0]
    /\ session = [single |-> NoReport, process |-> NoReport, thread |-> NoReport]
    /\ single = SingleIdle
    /\ thr = ThreadIdle
    /\ shared = SharedReset
    /\ mutex = [state |-> "uninit", owner |-> NoOwner, inits |-> 0]
    /\ threads = [t \in ThreadIds |-> NoThread]
    /\ prc = ProcIdle
    /\ procs = [i \in ProcIds |-> NoProc]
    /\ pipes = [i \in ProcIds |-> NoPipe]
    /\ shm = NoShm
    /\ rdcall = ReadIdle
    /\ vrf = VerifyIdle
    /\ stc = StatsIdle
    /\ ker = KernelIdle
    /\ ab = PairIdle

Next == MainNext \/ SingleNext \/ ProcNext \/ ThreadNext

\* a step in which no platform operation fails: no coordinator gets an
\* error, no worker process ends with a non-zero status, a worker's write
\* to its channel succeeds, and a join returns only for a thread that is done
NoFault ==
    /\ single'.err = CB_OK
    /\ prc'.err = CB_OK
    /\ thr'.err = CB_OK
    /\ \A i \in ProcIds :
          /\ procs'[i].status = 0
          /\ platform = "unix" /\ procs[i].st = "run" /\ procs'[i].st = "wrote"
                => pipes'[i].nwr = pipes[i].nwr + 1

\* the steps of a run without failures: the kill and unwind loops and the
\* steps of a worker that died or outlived its coordinator take no part
LiveNext ==
    \/ MainNext /\ NoFault
    \/ SingleNext /\ NoFault
    \/ (A_Alloc \/ A_IterBegin \/ A_PipeCreate \/ A_Spawn \/ A_CloseWrite
           \/ A_Read \/ A_Wait \/ A_Record \/ A_Report \/ A_Cleanup) /\ NoFault
    \/ (B_ExePath \/ B_Alloc \/ B_ShmCreate \/ B_IterBegin \/ B_Spawn
           \/ B_Wait \/ B_Record \/ B_Report \/ B_Cleanup) /\ NoFault
    \/ \E i \in ProcIds :
          (C_Write(i) \/ C_Exit(i) \/ WB_Open(i) \/ WB_Write(i) \/ WB_Exit(i))
              /\ NoFault
    \/ (T_Alloc \/ T_MutexInit \/ T_IterBegin \/ T_Create \/ T_Join
           \/ T_Record \/ T_Report \/ T_Cleanup) /\ NoFault
    \/ \E t \in ThreadIds :
          (W_Sum(t) \/ W_Lock(t) \/ W_Update(t) \/ W_Unlock(t)) /\ NoFault

Spec == Init /\ [][Next]_vars

\* SpecLive: the runs of main in which no platform operation fails, the
\* coordinator and every worker it has started keep being scheduled
SpecLive == Init /\ [][LiveNext]_vars /\ WF_vars(LiveNext)

(***************************************************************************)
(* SpecPart: one pass of `for (i = 0; i < n; i++) { chunk = ...;           *)
(* start = offset; length = chunk; offset += chunk; }` per coordinator.    *)
(***************************************************************************)
\* the program's own state while only the partitioning loops are run
ProgIdle ==
    /\ platform = "unix"
    /\ config = [array_length |-> 1, num_processes |-> 1, num_threads |-> 1,
                 iterations |-> 1]
    /\ dataset = [x \in 0..0 |-> 1]
    /\ dataset_live = TRUE
    /\ clock = 0
    /\ main = [pc |-> "idle", err |-> CB_OK, rc |-> 0, correctness |-> "none",
               calls |-> << >>, destroys |-> 0]
    /\ session = [single |-> NoReport, process |-> NoReport, thread |-> NoReport]
    /\ single = SingleIdle
    /\ thr = ThreadIdle
    /\ shared = SharedReset
    /\ mutex = [state |-> "uninit", owner |-> NoOwner, inits |-> 0]
    /\ threads = [t \in 0..0 |-> NoThread]
    /\ prc = ProcIdle
    /\ procs = [i \in 0..0 |-> NoProc]
    /\ pipes = [i \in 0..0 |-> NoPipe]
    /\ shm = NoShm

PartInit ==
    /\ p_len \in 1..PartMaxLen
    /\ p_n \in 1..PartMaxN
    /\ p_i = [m \in Modes |-> 0]
    /\ p_offset = [m \in Modes |-> 0]
    /\ p_slices = [m \in Modes |-> << >>]
    /\ ProgIdle
    /\ rdcall = ReadIdle
    /\ vrf = VerifyIdle
    /\ stc = StatsIdle
    /\ ker = KernelIdle
    /\ ab = PairIdle

PartStep(m) ==
    /\ p_i[m] < p_n
    /\ LET chunk == ChunkOf(m, p_len, p_n, p_i[m]) IN
        /\ p_slices' = [p_slices EXCEPT ![m] =
                           Append(@, [start |-> p_offset[m], length |-> chunk])]
        /\ p_offset' = [p_offset EXCEPT ![m] = @ + chunk]
    /\ p_i' = [p_i EXCEPT ![m] = @ + 1]
    /\ UNCHANGED <<p_len, p_n, progVars, unitVars>>

PartStepUnix == PartStep("unix")

PartStepWin == PartStep("win")

PartStepThread == PartStep("thread")

PartNext == PartStepUnix \/ PartStepWin \/ PartStepThread

SpecPart == PartInit /\ [][PartNext]_vars

(***************************************************************************)
(* SpecPipe: one call cb_pipe_read(p, buf, size) against every behaviour   *)
(* of read() and of the peer holding the write end.                        *)
(***************************************************************************)
Min(a, b) == IF a < b THEN a ELSE b

PipeInit ==
    /\ PartIdle
    /\ ProgIdle
    /\ vrf = VerifyIdle
    /\ stc = StatsIdle
    /\ ker = KernelIdle
    /\ ab = PairIdle
    /\ \E sz \in 0..MaxSize, tw \in 0..(MaxSize + 1) :
          rdcall = [ReadIdle EXCEPT !.pc = "loop", !.size = sz,
                                    !.remaining = sz, !.towrite = tw,
                                    !.wopen = TRUE]

\* while (remaining > 0) is false: return CB_OK;
R_Done ==
    /\ rdcall.pc = "loop"
    /\ rdcall.remaining = 0
    /\ rdcall' = [rdcall EXCEPT !.pc = "returned", !.ret = CB_OK,
                                !.cause = "complete"]
    /\ UNCHANGED <<partVars, progVars, vrf, stc, ker, ab>>

\* n = read(fd, ptr, remaining) with n > 0: between 1 and remaining of the
\* buffered bytes;  ptr += n; remaining -= n;
R_Bytes ==
    /\ rdcall.pc = "loop"
    /\ rdcall.remaining > 0
    /\ rdcall.avail > 0
    /\ \E n \in 1..Min(rdcall.avail, rdcall.remaining) :
          rdcall' = [rdcall EXCEPT !.avail = @ - n, !.remaining = @ - n,
                                   !.consumed = @ + n, !.reads = @ + 1]
    /\ UNCHANGED <<partVars, progVars, vrf, stc, ker, ab>>

EofIsSuccess == CB_OK

\* if (n == 0) return CB_ERR_PIPE;  /* Unexpected EOF. */
EofResult == CB_ERR_PIPE

\* read() returns 0: nothing buffered and every write end closed
R_Eof ==
    /\ rdcall.pc = "loop"
    /\ rdcall.remaining > 0
    /\ rdcall.avail = 0
    /\ ~rdcall.wopen
    /\ rdcall' = [rdcall EXCEPT !.pc = "returned", !.ret = EofResult,
                                !.cause = "eof"]
    /\ UNCHANGED <<partVars, progVars, vrf, stc, ker, ab>>

\* n < 0 with errno == EINTR: continue;
R_Eintr ==
    /\ rdcall.pc = "loop"
    /\ rdcall.remaining > 0
    /\ rdcall.eintr < MaxEintr
    /\ rdcall' = [rdcall EXCEPT !.eintr = @ + 1]
    /\ UNCHANGED <<partVars, progVars, vrf, stc, ker, ab>>

\* n < 0 with any other errno: return CB_ERR_PIPE;
R_Error ==
    /\ rdcall.pc = "loop"
    /\ rdcall.remaining > 0
    /\ rdcall' = [rdcall EXCEPT !.pc = "returned", !.ret = CB_ERR_PIPE,
                                !.cause = "error"]
    /\ UNCHANGED <<partVars, progVars, vrf, stc, ker, ab>>

\* the peer's write() puts some of its bytes into the pipe
R_PeerWrite ==
    /\ rdcall.pc = "loop"
    /\ rdcall.wopen
    /\ rdcall.towrite > 0
    /\ \E k \in 1..rdcall.towrite :
          rdcall' = [rdcall EXCEPT !.avail = @ + k, !.towrite = @ - k]
    /\ UNCHANGED <<partVars, progVars, vrf, stc, ker, ab>>

\* the peer closes its write end or terminates, whatever it has written
R_PeerClose ==
    /\ rdcall.pc = "loop"
    /\ rdcall.wopen
    /\ rdcall' = [rdcall EXCEPT !.wopen = FALSE]
    /\ UNCHANGED <<partVars, progVars, vrf, stc, ker, ab>>

PipeNext ==
    \/ R_Done \/ R_Bytes \/ R_Eof \/ R_Eintr \/ R_Error
    \/ R_PeerWrite \/ R_PeerClose

SpecPipe == PipeInit /\ [][PipeNext]_vars

(***************************************************************************)
(* Helpers for the partition claims.                                       *)
(***************************************************************************)
PartDone(m) == p_i[m] = p_n

\* the slices covering dataset index x in the partition of mode m
Covering(m, x) ==
    {k \in 1..Len(p_slices[m]) :
        /\ p_slices[m][k].start <= x
        /\ x < p_slices[m][k].start + p_slices[m][k].length}

CeilDiv(a, b) == (a + b - 1) \div b

\* C1: in every coordinator the slices handed out so far are ordered and
\* contiguous (slice 0 starts at 0, slice i+1 starts where slice i ends), and
\* once all n are handed out the last one ends at array_length and every
\* index of [0, array_length) lies in exactly one slice.
C1_PartitionCoverage ==
    \A m \in Modes :
        /\ Len(p_slices[m]) >= 1 => p_slices[m][1].start = 0
        /\ \A k \in 1..(Len(p_slices[m]) - 1) :
              p_slices[m][k + 1].start
                  = p_slices[m][k].start + p_slices[m][k].length
        /\ \A k \in 1..Len(p_slices[m]) : p_slices[m][k].length >= 0
        /\ PartDone(m) =>
              /\ Len(p_slices[m]) = p_n
              /\ p_slices[m][p_n].start + p_slices[m][p_n].length = p_len
              /\ \A x \in 0..(p_len - 1) : Cardinality(Covering(m, x)) = 1

C1_Witness ==
    /\ \A m \in Modes : PartDone(m)
    /\ p_n >= 3
    /\ p_len % p_n # 0
    /\ p_len > p_n

\* C2: slice i has length ceil(array_length/n) when i < array_length mod n and
\* floor(array_length/n) otherwise, in every coordinator, and the process-mode
\* and thread-mode partitions agree slice by slice.
C2_SliceLengths ==
    /\ \A m \in Modes : \A k \in 1..Len(p_slices[m]) :
          p_slices[m][k].length
              = IF k - 1 < p_len % p_n
                   THEN CeilDiv(p_len, p_n)
                   ELSE p_len \div p_n
    /\ \A m1, m2 \in Modes :
          \A k \in 1..Len(p_slices[m1]) :
              k <= Len(p_slices[m2]) => p_slices[m1][k] = p_slices[m2][k]

C2_Witness ==
    /\ \A m \in Modes : PartDone(m)
    /\ p_n >= 2
    /\ p_len % p_n >= 2
    /\ p_len % p_n < p_n - 1

(***************************************************************************)
(* Properties of the whole run (Spec).                                     *)
(***************************************************************************)
\* the sum of the whole dataset
Total == SumLoop(dataset, 0, config.array_length, 0)

RECURSIVE SumPartials(_)
\* the partial sums of threads 0..t added up
SumPartials(t) ==
    IF t < 0 THEN 0 ELSE threads[t].partial_sum + SumPartials(t - 1)

InCritical == {t \in ThreadIds : threads[t].pc \in {"update", "unlock"}}

MinStart ==
    CHOOSE x \in {threads[t].t_start : t \in ThreadIds} :
        \A t \in ThreadIds : x <= threads[t].t_start

MaxEnd ==
    CHOOSE x \in {threads[t].t_end : t \in ThreadIds} :
        \A t \in ThreadIds : x >= threads[t].t_end

SpawnedNow(j) == procs[j].st # "none" /\ procs[j].iter = prc.iter

\* the teardown of one worker: one kill, then one wait, and the worker is
\* reaped when that wait succeeded
TornDown(p) ==
    /\ Len(p.log) = 2
    /\ p.log[1] = "kill"
    /\ p.log[2] \in {"wait", "wait_failed"}
    /\ p.log[2] = "wait" => p.st = "reaped"

AfterTeardown == prc.pc \in {"cleanup", "returned"}

LastCall(p) == p.log[Len(p.log)]

C11_NoThreadRunningAtReturn ==
    thr.pc = "returned" =>
        \A t \in ThreadIds : threads[t].pc \in {"none", "done"}

\* C12: times[k] exists only for an iteration k that has been recorded,
\* and at the moment a coordinator records an iteration every worker of
\* that iteration has delivered its result and has been waited for or
\* joined successfully, so none of them can still be running.
C12_TimingAfterCompletion ==
    /\ Len(single.times) = single.iter
    /\ Len(prc.times) = prc.iter
    /\ Len(thr.times) = thr.iter
    /\ prc.pc = "record" =>
          \A j \in ProcIds :
              /\ SpawnedNow(j)
              /\ procs[j].st = "reaped"
              /\ platform = "unix" => ~pipes[j].rd /\ ~pipes[j].cwr
    /\ thr.pc = "record" =>
          \A t \in ThreadIds : threads[t].pc = "done" /\ threads[t].joined

C12_Witness ==
    /\ prc.pc = "record"
    /\ prc.iter = 1
    /\ Len(prc.times) = 1
    /\ config.num_processes >= 2
    /\ \A j \in ProcIds : procs[j].st = "reaped" /\ procs[j].iter = 1

\* C13: in Strategy A a channel never holds or carries more than one Result:
\* at most one record is written to it and at most one read from it between
\* its creation and its re-creation in the next iteration, a worker that has
\* terminated has closed its write end, and in an iteration that is recorded
\* exactly one record was written to and read from every channel.
C13_OneMessagePerChannel ==
    \A i \in ProcIds :
        /\ pipes[i].nwr <= 1
        /\ pipes[i].nrd <= pipes[i].nwr
        /\ Len(pipes[i].buf) = pipes[i].nwr - pipes[i].nrd
        /\ procs[i].st \in {"zombie", "reaped"} => ~pipes[i].cwr
        /\ (platform = "unix" /\ prc.pc = "record") =>
              pipes[i].nwr = 1 /\ pipes[i].nrd = 1

C13_Witness ==
    /\ platform = "unix"
    /\ prc.pc = "record"
    /\ prc.iter >= 1
    /\ config.num_processes >= 2
    /\ \A i \in ProcIds : pipes[i].nrd = 1 /\ pipes[i].buf = << >>

\* channel j was created in this iteration, its worker is spawned, the
\* coordinator has closed its write end and has not read from it yet
Dispatched(j) ==
    /\ SpawnedNow(j)
    /\ pipes[j].rd
    /\ ~pipes[j].wr
    /\ pipes[j].nrd = 0
    /\ procs[j].log = << >>

\* channel j has been read and its read end closed
Collected(j) == SpawnedNow(j) /\ pipes[j].nrd = 1 /\ ~pipes[j].rd

\* C14: in a Strategy-A iteration, while the coordinator works on worker i
\* of the fan-out, workers 0..i-1 are spawned with the coordinator's write
\* end closed and nothing of index > i exists, and nothing has been read or
\* waited for; while it reads channel i all n workers are spawned, exactly
\* channels 0..i-1 have been read, and no wait has been issued; while it
\* waits for worker i all n channels have been read and exactly workers
\* 0..i-1 have been waited for.
C14_StrategyAOrder ==
    platform = "unix" =>
        /\ prc.pc \in {"pipe", "spawn", "closew"} =>
              /\ prc.spawned = prc.i
              /\ \A j \in ProcIds :
                    /\ j < prc.i => Dispatched(j)
                    /\ j > prc.i => ~SpawnedNow(j)
              /\ prc.pc = "pipe" => ~SpawnedNow(prc.i)
              /\ prc.pc = "spawn" =>
                    /\ ~SpawnedNow(prc.i)
                    /\ pipes[prc.i].rd /\ pipes[prc.i].wr
                    /\ pipes[prc.i].nwr = 0
              /\ prc.pc = "closew" =>
                    /\ SpawnedNow(prc.i)
                    /\ pipes[prc.i].rd /\ pipes[prc.i].wr
                    /\ pipes[prc.i].nrd = 0
        /\ prc.pc = "read" =>
              /\ prc.spawned = config.num_processes
              /\ \A j \in ProcIds :
                    /\ j < prc.i => Collected(j) /\ procs[j].log = << >>
                    /\ j >= prc.i => Dispatched(j)
        /\ prc.pc = "wait" =>
              \A j \in ProcIds :
                  /\ Collected(j)
                  /\ j < prc.i => Len(procs[j].log) = 1
                  /\ j >= prc.i => procs[j].log = << >>

C14_Witness ==
    /\ platform = "unix"
    /\ prc.pc = "wait"
    /\ prc.i >= 1
    /\ prc.iter >= 1
    /\ config.num_processes >= 2

(***************************************************************************)
(* SpecSums: the iteration loop of a coordinator (cb_bench_single_run,     *)
(* cb_bench_process_run, cb_bench_thread_run) from the point where an      *)
(* iteration's total is known, the total being any value at all.           *)
(***************************************************************************)
Coordinators == {"single", "process", "thread"}

SumsInit ==
    /\ PartIdle
    /\ ProgIdle
    /\ rdcall = ReadIdle
    /\ stc = StatsIdle
    /\ ker = KernelIdle
    /\ ab = PairIdle
    /\ \E c \in Coordinators, n \in 1..MaxRounds :
          vrf = [VerifyIdle EXCEPT !.pc = "loop", !.coord = c,
                                   !.iterations = n]

\* one round of the loop with total s: times[iter] recorded, then the
\* consistency check, which at most prints a warning
V_Iter ==
    /\ vrf.pc = "loop"
    /\ vrf.iter < vrf.iterations
    /\ \E s \in 0..MaxSum :
          vrf' = [vrf EXCEPT
                     !.sums = Append(@, s),
                     !.verified_sum = VerifiedSum(vrf.iter, s, @),
                     !.warnings = IF vrf.iter > 0 /\ s # vrf.verified_sum
                                     THEN @ + 1 ELSE @,
                     !.iter = @ + 1]
    /\ UNCHANGED <<partVars, progVars, rdcall, stc, ker, ab>>

\* report->sum = verified_sum; err = cb_stats_compute(times, iterations, ...);
\* cleanup: return err;
V_Report ==
    /\ vrf.pc = "loop"
    /\ vrf.iter >= vrf.iterations
    /\ vrf' = [vrf EXCEPT !.pc = "returned", !.report_sum = vrf.verified_sum,
                          !.err = StatsErr(vrf.iterations)]
    /\ UNCHANGED <<partVars, progVars, rdcall, stc, ker, ab>>

SumsNext == V_Iter \/ V_Report

SpecSums == SumsInit /\ [][SumsNext]_vars

(***************************************************************************)
(* SpecStats: one call cb_stats_compute(times, count, stats_out) for every *)
(* combination of null and non-null pointers, counts from -1 up, and       *)
(* sample values.  Samples are integers; the mean is kept as the exact     *)
(* fraction sum/count and the standard deviation as the fraction under the *)
(* square root, so a division by zero shows as a zero denominator.         *)
(***************************************************************************)
Rat(n, d) == [num |-> n, den |-> d]

Sqrt(r) == [sqrt_of |-> r]

\* what *stats_out holds when the caller did not initialise it to anything
\* cb_stats_compute would produce
PriorStats == [min_sec |-> 9, max_sec |-> 9, mean_sec |-> Rat(9, 1),
               stddev_sec |-> Sqrt(Rat(81, 1)), iterations |-> 9]

\* if (!times || !stats_out || count < 1) return CB_ERR_ARGS;
ArgsErr(times, count, stats_out) ==
    IF times.null \/ stats_out.null THEN CB_ERR_ARGS ELSE StatsErr(count)

OutputZeroedFirst(stats_out) ==
    IF stats_out.null THEN stats_out
    ELSE Ptr([min_sec |-> 0, max_sec |-> 0, mean_sec |-> Rat(0, 1),
              stddev_sec |-> Sqrt(Rat(0, 1)), iterations |-> 0])

\* the early return comes before any store through stats_out
OutputOnReject(stats_out) == stats_out

RECURSIVE Pass1(_, _, _, _)
\* for (i = 0; i < count; i++) { sum += times[i]; if (times[i] < min_val)
\*     min_val = times[i]; if (times[i] > max_val) max_val = times[i]; }
Pass1(times, i, count, acc) ==
    IF i < count
    THEN Pass1(times, i + 1, count,
               [sum |-> acc.sum + times[i + 1],
                min_val |-> IF times[i + 1] < acc.min_val THEN times[i + 1]
                            ELSE acc.min_val,
                max_val |-> IF times[i + 1] > acc.max_val THEN times[i + 1]
                            ELSE acc.max_val])
    ELSE acc

RECURSIVE Pass2(_, _, _, _, _)
\* for (i = 0; i < count; i++) { diff = times[i] - mean; variance_sum +=
\*     diff * diff; }  with diff = (count * times[i] - sum) / count: the
\* numerator of variance_sum over the denominator count * count
Pass2(times, i, count, sum, acc) ==
    IF i < count
    THEN Pass2(times, i + 1, count, sum,
               acc + (count * times[i + 1] - sum) * (count * times[i + 1] - sum))
    ELSE acc

StddevUnguarded(count, variance_sum) ==
    Sqrt(Rat(variance_sum.num, variance_sum.den * (count - 1)))

\* double stddev = 0.0;
\* if (count > 1) stddev = sqrt(variance_sum / (double)(count - 1));
Stddev(count, variance_sum) ==
    IF count > 1
    THEN Sqrt(Rat(variance_sum.num, variance_sum.den * (count - 1)))
    ELSE Sqrt(Rat(0, 1))

\* the body of cb_stats_compute after the argument check
StatsOf(times, count) ==
    LET p1 == Pass1(times, 0, count,
                    [sum |-> 0, min_val |-> times[1], max_val |-> times[1]])
        variance_sum == Rat(Pass2(times, 0, count, p1.sum, 0), count * count)
    IN [min_sec |-> p1.min_val, max_sec |-> p1.max_val,
        mean_sec |-> Rat(p1.sum, count),
        stddev_sec |-> Stddev(count, variance_sum),
        iterations |-> count]

Samples == UNION {[1..k -> 0..MaxSample] : k \in 0..MaxCount}

StatsInit ==
    /\ PartIdle
    /\ ProgIdle
    /\ rdcall = ReadIdle
    /\ vrf = VerifyIdle
    /\ ker = KernelIdle
    /\ ab = PairIdle
    /\ \E t \in {Null} \cup {Ptr(q) : q \in Samples},
          c \in -1..MaxCount,
          o \in {Null, Ptr(PriorStats)} :
          /\ ~t.null => c <= Len(t.v)
          /\ stc = [StatsIdle EXCEPT !.pc = "call", !.times = t, !.count = c,
                                     !.stats_out = o, !.before = o]

\* the call returns CB_ERR_ARGS from the argument check
ST_Reject ==
    /\ stc.pc = "call"
    /\ ArgsErr(stc.times, stc.count, stc.stats_out) # CB_OK
    /\ stc' = [stc EXCEPT !.pc = "returned",
                          !.ret = ArgsErr(stc.times, stc.count, stc.stats_out),
                          !.stats_out = OutputOnReject(@)]
    /\ UNCHANGED <<partVars, progVars, rdcall, vrf, ker, ab>>

\* the call passes the check, runs both passes, stores the five fields and
\* returns CB_OK
ST_Compute ==
    /\ stc.pc = "call"
    /\ ArgsErr(stc.times, stc.count, stc.stats_out) = CB_OK
    /\ stc' = [stc EXCEPT !.pc = "returned", !.ret = CB_OK,
                          !.stats_out = Ptr(StatsOf(stc.times.v, stc.count))]
    /\ UNCHANGED <<partVars, progVars, rdcall, vrf, ker, ab>>

StatsNext == ST_Reject \/ ST_Compute

SpecStats == StatsInit /\ [][StatsNext]_vars

(***************************************************************************)
(* SpecKernel: cb_array_sum applied to the n slices of a partition of an   *)
(* array and to the array as one slice.  The kernel accumulates in a       *)
(* `long int`.  The widths are scaled down: an int holds                   *)
(* -KerMaxVal-1..KerMaxVal; on LP64 (unix) a long holds the sum of any     *)
(* array of ints, on LLP64 (win) a long is as wide as an int.              *)
(***************************************************************************)
\* LONG_MAX of the platform
LongMax(p) == IF p = "win" THEN KerMaxVal ELSE KerMaxLen * (KerMaxVal + 1)

RECURSIVE Overflows(_, _, _, _, _)
\* some `result.sum += dataset[i]` of the loop leaves the range of long int:
\* signed overflow, undefined behaviour
Overflows(ds, i, end, acc, maxv) ==
    IF i < end
    THEN \/ acc + ds[i] > maxv
         \/ acc + ds[i] < -maxv - 1
         \/ Overflows(ds, i + 1, end, acc + ds[i], maxv)
    ELSE FALSE

KernelInit ==
    /\ PartIdle
    /\ ProgIdle
    /\ rdcall = ReadIdle
    /\ vrf = VerifyIdle
    /\ stc = StatsIdle
    /\ ab = PairIdle
    /\ \E len \in 1..KerMaxLen, n \in 1..KerMaxN, m \in Modes,
          p \in {"unix", "win"} :
          /\ m \in {"unix", "win"} => p = m
          /\ \E d \in [0..(len - 1) -> (-KerMaxVal - 1)..KerMaxVal] :
                ker = [KernelIdle EXCEPT !.pc = "slices", !.data = d,
                                         !.len = len, !.n = n, !.mode = m,
                                         !.plat = p]

\* the slice the partitioning loop is at
KerChunk == ChunkOf(ker.mode, ker.len, ker.n, ker.i)

\* chunk = ...; cb_array_sum(dataset, offset, chunk); offset += chunk;
\* as every coordinator hands slice i to the kernel
K_Slice ==
    /\ ker.pc = "slices"
    /\ ~Overflows(ker.data, ker.offset, ker.offset + KerChunk, 0,
                  LongMax(ker.plat))
    /\ LET r == cb_array_sum(ker.data, ker.offset, KerChunk, 0).sum IN
          ker' = [ker EXCEPT
                     !.slices = Append(@, [start |-> ker.offset,
                                           length |-> KerChunk, sum |-> r]),
                     !.total = @ + r,
                     !.offset = @ + KerChunk,
                     !.i = @ + 1,
                     !.pc = IF ker.i + 1 < ker.n THEN "slices" ELSE "whole"]
    /\ UNCHANGED <<partVars, progVars, rdcall, vrf, stc, ab>>

\* cb_array_sum(dataset, 0, array_length): the array as one slice
K_Whole ==
    /\ ker.pc = "whole"
    /\ ~Overflows(ker.data, 0, ker.len, 0, LongMax(ker.plat))
    /\ ker' = [ker EXCEPT !.whole = cb_array_sum(ker.data, 0, ker.len, 0).sum,
                          !.pc = "done"]
    /\ UNCHANGED <<partVars, progVars, rdcall, vrf, stc, ab>>

\* the kernel call the run is at overflows its accumulator: whatever it
\* returns, if it returns, is not determined by the program
K_Overflow ==
    /\ \/ /\ ker.pc = "slices"
          /\ Overflows(ker.data, ker.offset, ker.offset + KerChunk, 0,
                       LongMax(ker.plat))
       \/ /\ ker.pc = "whole"
          /\ Overflows(ker.data, 0, ker.len, 0, LongMax(ker.plat))
    /\ ker' = [ker EXCEPT !.pc = "undefined"]
    /\ UNCHANGED <<partVars, progVars, rdcall, vrf, stc, ab>>

KernelNext == K_Slice \/ K_Whole \/ K_Overflow

SpecKernel == KernelInit /\ [][KernelNext]_vars

(***************************************************************************)
(* SpecPair: Strategy A (bench_process_unix.c) and Strategy B              *)
(* (bench_process_win.c) run side by side on one dataset and one           *)
(* configuration.  No operation of a coordinator fails; at most one worker *)
(* of the run (the same one on both sides) terminates abnormally, before   *)
(* or after it has delivered its result.  Both coordinators block until a  *)
(* worker has delivered or terminated, so a worker is followed as one step *)
(* with its spawn.                                                         *)
(***************************************************************************)
NoVictim == [iter |-> -1, id |-> -1, when |-> "never"]

\* how worker id of iteration iter ends: "exit0", or terminated from outside
\* "early" (before its result is delivered) or "late" (after it)
FateOf(victim, iter, id) ==
    IF victim.iter = iter /\ victim.id = id THEN victim.when ELSE "exit0"

\* the exit status cb_process_wait reports for a worker
StatusOf(plat, fate) ==
    IF fate = "exit0" THEN 0 ELSE IF plat = "unix" THEN -1 ELSE 1

\* the locals of cb_bench_process_run at the top of an iteration
SideIterStart(side, n) ==
    [side EXCEPT !.pc = "spawn", !.i = 0, !.offset = 0, !.slices = << >>,
                 !.chan = << >>, !.status = << >>, !.iter_sum = 0,
                 !.slots = [w \in 0..(n - 1) |-> ClearSlot(side.slots[w])]]

SideStart(n) ==
    [pc |-> "spawn", iter |-> 0, i |-> 0, offset |-> 0, slices |-> << >>,
     chan |-> << >>, status |-> << >>, iter_sum |-> 0, verified_sum |-> 0,
     slots |-> [w \in 0..(n - 1) |-> ZeroSlot], err |-> CB_OK,
     report |-> NoReport]

PairInit ==
    /\ PartIdle
    /\ ProgIdle
    /\ rdcall = ReadIdle
    /\ vrf = VerifyIdle
    /\ stc = StatsIdle
    /\ ker = KernelIdle
    /\ \E len \in 1..PairMaxLen, n \in 1..PairMaxN, its \in 1..PairMaxIter,
          seed \in Seeds :
          \E victim \in {NoVictim} \cup [iter : 0..(its - 1), id : 0..(n - 1),
                                         when : {"early", "late"}] :
             ab = [pc |-> "run",
                   dataset |-> DatasetOf(seed, len),
                   config |-> [array_length |-> len, num_processes |-> n,
                               iterations |-> its],
                   victim |-> victim,
                   a |-> SideStart(n),
                   b |-> SideStart(n)]

\* the spawn loop of one strategy at worker i: partition, spawn; the worker
\* computes its slice and delivers the result unless it is terminated first
SideSpawn(plat, side) ==
    LET n == ab.config.num_processes
        chunk == ChunkOf(plat, ab.config.array_length, n, side.i)
        fate == FateOf(ab.victim, side.iter, side.i)
        r == cb_array_sum(ab.dataset, side.offset, chunk, 0).sum
        last == ~(side.i + 1 < n)
    IN [side EXCEPT
           !.slices = Append(@, [start |-> side.offset, length |-> chunk]),
           !.chan = Append(@, IF plat = "unix" /\ fate # "early"
                                 THEN <<r>> ELSE << >>),
           !.slots = IF plat = "win" /\ fate # "early"
                        THEN [@ EXCEPT ![SlotOf(side.i)] =
                                 [sum |-> r, iter |-> side.iter, id |-> side.i]]
                        ELSE @,
           !.status = Append(@, StatusOf(plat, fate)),
           !.offset = @ + chunk,
           !.i = IF last THEN 0 ELSE @ + 1,
           !.pc = IF ~last THEN "spawn"
                  ELSE IF plat = "unix" THEN "read" ELSE "wait"]

\* the wait loop of one strategy at worker i, then `if (err) goto cleanup;`
SideWait(plat, side) ==
    LET err2 == StatusErr(plat, side.err, side.status[side.i + 1])
        last == ~(side.i + 1 < ab.config.num_processes)
    IN [side EXCEPT
           !.err = err2,
           !.i = IF last THEN 0 ELSE @ + 1,
           !.pc = IF ~last THEN "wait"
                  ELSE IF AfterWaits(err2) = "record" THEN "record" ELSE "done"]

\* the end of an iteration: verified_sum, the next iteration or the report
SideRecord(side, iter_sum) ==
    LET v == VerifiedSum(side.iter, iter_sum, side.verified_sum)
        n == ab.config.num_processes
    IN IF side.iter + 1 < ab.config.iterations
       THEN SideIterStart([side EXCEPT !.verified_sum = v, !.iter = @ + 1], n)
       ELSE [side EXCEPT !.iter_sum = iter_sum, !.verified_sum = v,
                         !.iter = @ + 1, !.pc = "done",
                         !.report = [label |-> "process", sum |-> v,
                                     parallelism |-> n,
                                     stats_iterations |-> ab.config.iterations]]

Pair_A_Spawn ==
    /\ ab.pc = "run"
    /\ ab.a.pc = "spawn"
    /\ ab' = [ab EXCEPT !.a = SideSpawn("unix", @)]
    /\ UNCHANGED <<partVars, progVars, rdcall, vrf, stc, ker>>

\* err = cb_pipe_read(...): the worker's Result, or end of file when the
\* worker terminated without writing: goto cleanup_children, return err
Pair_A_Read ==
    /\ ab.pc = "run"
    /\ ab.a.pc = "read"
    /\ LET side == ab.a
           last == ~(side.i + 1 < ab.config.num_processes)
       IN ab' = [ab EXCEPT !.a =
                    IF side.chan[side.i + 1] # << >>
                    THEN [side EXCEPT
                             !.iter_sum = @ + side.chan[side.i + 1][1],
                             !.i = IF last THEN 0 ELSE @ + 1,
                             !.pc = IF last THEN "wait" ELSE "read"]
                    ELSE [side EXCEPT !.err = CB_ERR_PIPE, !.pc = "done"]]
    /\ UNCHANGED <<partVars, progVars, rdcall, vrf, stc, ker>>

Pair_A_Wait ==
    /\ ab.pc = "run"
    /\ ab.a.pc = "wait"
    /\ ab' = [ab EXCEPT !.a = SideWait("unix", @)]
    /\ UNCHANGED <<partVars, progVars, rdcall, vrf, stc, ker>>

Pair_A_Record ==
    /\ ab.pc = "run"
    /\ ab.a.pc = "record"
    /\ ab' = [ab EXCEPT !.a = SideRecord(@, ab.a.iter_sum)]
    /\ UNCHANGED <<partVars, progVars, rdcall, vrf, stc, ker>>

Pair_B_Spawn ==
    /\ ab.pc = "run"
    /\ ab.b.pc = "spawn"
    /\ ab' = [ab EXCEPT !.b = SideSpawn("win", @)]
    /\ UNCHANGED <<partVars, progVars, rdcall, vrf, stc, ker>>

Pair_B_Wait ==
    /\ ab.pc = "run"
    /\ ab.b.pc = "wait"
    /\ ab' = [ab EXCEPT !.b = SideWait("win", @)]
    /\ UNCHANGED <<partVars, progVars, rdcall, vrf, stc, ker>>

\* iter_sum += shm_result(shm_base, array_length, i)->sum for every slot
Pair_B_Record ==
    /\ ab.pc = "run"
    /\ ab.b.pc = "record"
    /\ ab' = [ab EXCEPT !.b =
                 SideRecord(@, SlotSum(ab.b.slots, 0, ab.config.num_processes))]
    /\ UNCHANGED <<partVars, progVars, rdcall, vrf, stc, ker>>

PairNext ==
    \/ Pair_A_Spawn \/ Pair_A_Read \/ Pair_A_Wait \/ Pair_A_Record
    \/ Pair_B_Spawn \/ Pair_B_Wait \/ Pair_B_Record

SpecPair == PairInit /\ [][PairNext]_vars

(***************************************************************************)
(* Properties of cb_pipe_read (SpecPipe).                                  *)
(***************************************************************************)
\* C15: cb_pipe_read never consumes more than `size` bytes, returns CB_OK
\* exactly when it has consumed `size` bytes, and returns CB_ERR_PIPE, with
\* fewer than `size` bytes consumed, when read() reported end-of-file or an
\* error other than EINTR before that.
C15_ReadExact ==
    /\ rdcall.consumed + rdcall.remaining = rdcall.size
    /\ rdcall.remaining >= 0
    /\ rdcall.pc = "returned" =>
          /\ rdcall.ret \in {CB_OK, CB_ERR_PIPE}
          /\ rdcall.ret = CB_OK <=> rdcall.consumed = rdcall.size
          /\ rdcall.ret = CB_OK <=> rdcall.cause = "complete"
          /\ rdcall.cause \in {"eof", "error"} =>
                rdcall.ret = CB_ERR_PIPE /\ rdcall.consumed < rdcall.size

C15_Witness ==
    /\ rdcall.pc = "returned"
    /\ rdcall.ret = CB_OK
    /\ rdcall.size = MaxSize
    /\ rdcall.reads >= 2
    /\ rdcall.eintr >= 1

(***************************************************************************)
(* Properties of the iteration loop (SpecSums).                            *)
(***************************************************************************)
\* C16: whatever the totals of iterations 1, 2, ... are, equal to the total
\* of iteration 0 or not, the coordinator runs every configured iteration,
\* returns CB_OK, and reports the total of iteration 0.
C16_MismatchNonFatal ==
    /\ vrf.pc = "loop" => vrf.err = CB_OK /\ Len(vrf.sums) = vrf.iter
    /\ vrf.iter >= 1 => vrf.verified_sum = vrf.sums[1]
    /\ vrf.pc = "returned" =>
          /\ Len(vrf.sums) = vrf.iterations
          /\ vrf.err = CB_OK
          /\ vrf.report_sum = vrf.sums[1]

C16_Witness ==
    /\ vrf.pc = "returned"
    /\ vrf.iterations >= 3
    /\ vrf.warnings >= 1
    /\ vrf.sums[2] # vrf.sums[1]
    /\ vrf.sums[3] # vrf.sums[2]

(***************************************************************************)
(* Properties of the orchestration in main (Spec).                         *)
(***************************************************************************)
CallOrder == <<"single", "process", "thread">>

\* C17: the coordinators main has invoked so far are an initial part of
\* baseline, process, thread (so each at most once, in that order), every
\* invocation got the same dataset and configuration, a coordinator has
\* been entered exactly when main invoked it, and a coordinator is invoked
\* only after every earlier one returned CB_OK.
C17_CoordinatorOrder ==
    /\ Len(main.calls) <= 3
    /\ \A k \in 1..Len(main.calls) :
          /\ main.calls[k].fn = CallOrder[k]
          /\ main.calls[k].dataset = main.calls[1].dataset
          /\ main.calls[k].config = main.calls[1].config
    /\ single.pc # "idle" <=> Len(main.calls) >= 1
    /\ prc.pc # "idle" <=> Len(main.calls) >= 2
    /\ thr.pc # "idle" <=> Len(main.calls) >= 3
    /\ Len(main.calls) >= 2 => single.pc = "returned" /\ single.err = CB_OK
    /\ Len(main.calls) >= 3 => prc.pc = "returned" /\ prc.err = CB_OK
    /\ main.pc = "exit" /\ main.rc = 0 => Len(main.calls) = 3

C17_Witness ==
    /\ main.pc = "exit"
    /\ Len(main.calls) = 2
    /\ prc.pc = "returned"
    /\ prc.err # CB_OK
    /\ thr.pc = "idle"

\* a worker thread that has been started and has not finished its function
ThreadAlive(t) == threads[t].pc \notin {"none", "done"}

\* C18: when the process coordinator returns CB_OK, which is the only case
\* in which main goes on to invoke the thread coordinator, every worker
\* process it spawned has terminated and been reaped; no worker thread
\* exists before the thread coordinator is invoked; and at no time are a
\* worker process and a worker thread alive together.
C18_NoCrossModeOverlap ==
    /\ (prc.pc = "returned" /\ prc.err = CB_OK) =>
          \A i \in ProcIds : procs[i].st \in {"none", "reaped"}
    /\ thr.pc = "idle" => \A t \in ThreadIds : ~ThreadAlive(t)
    /\ thr.pc # "idle" => \A i \in ProcIds : ~Live(procs[i])
    /\ \A i \in ProcIds, t \in ThreadIds :
          ~(Live(procs[i]) /\ ThreadAlive(t))

C18_Witness ==
    /\ main.pc = "in_process"
    /\ prc.pc = "returned"
    /\ prc.err = CB_OK
    /\ config.num_processes >= 2
    /\ config.iterations >= 2
    /\ \A i \in ProcIds : procs[i].st = "reaped" /\ procs[i].iter = 1

\* C19 as stated: every run of main that has started the benchmark sequence
\* ends with the correctness comparison of the three sums reported, PASS or
\* FAIL, also when a coordinator failed and the run was aborted.
C19_CorrectnessAlwaysReported ==
    main.pc = "exit" => main.correctness \in {"PASS", "FAIL"}

\* a coordinator has been invoked and has not returned
Executing ==
    \/ single.pc \notin {"idle", "returned"}
    \/ prc.pc \notin {"idle", "returned"}
    \/ thr.pc \notin {"idle", "returned"}

\* C20 as stated: the dataset is destroyed exactly once on every path
\* through main, and at the moment it is destroyed no coordinator is
\* executing and no worker thread created by a coordinator is still running.
C20_DatasetLifetime ==
    /\ main.destroys = (IF main.pc = "exit" THEN 1 ELSE 0)
    /\ dataset_live <=> main.destroys = 0
    /\ ~dataset_live => ~Executing
    /\ ~dataset_live => \A t \in ThreadIds : ~ThreadAlive(t)

\* C21: from the invocation of the first coordinator on, the dataset and
\* the configuration hold the values they had at that invocation, whatever
\* the coordinators, the kernel and the workers have done since.
C21_InputsReadOnly ==
    Len(main.calls) >= 1 =>
        /\ dataset = main.calls[1].dataset
        /\ config = main.calls[1].config

C21_Witness ==
    /\ main.pc = "output"
    /\ config.iterations >= 2
    /\ config.num_threads >= 2
    /\ config.num_processes >= 2
    /\ config.array_length >= 2
    /\ Len(main.calls) = 3
    /\ dataset = main.calls[1].dataset

(***************************************************************************)
(* Properties of Strategy B (Spec, platform = "win").                      *)
(***************************************************************************)
\* the coordinator of Strategy B is inside iteration prc.iter
InIterationB ==
    /\ platform = "win"
    /\ shm.state = "created"
    /\ prc.pc \in {"spawn", "wait", "record"}

\* C22: inside iteration k of Strategy B every result slot is either zero
\* or holds what a worker of iteration k stored; a slot whose worker has
\* not been spawned yet in iteration k is zero, so all slots are zero
\* before the first spawn of the iteration.
C22_SlotsClearedPerIteration ==
    InIterationB =>
        \A w \in ProcIds :
            /\ shm.slots[w] = ZeroSlot \/ shm.slots[w].iter = prc.iter
            /\ (prc.pc = "spawn" /\ w >= prc.spawned) => shm.slots[w] = ZeroSlot

C22_Witness ==
    /\ InIterationB
    /\ prc.pc = "record"
    /\ prc.iter = 1
    /\ config.num_processes >= 2
    /\ \A w \in ProcIds : shm.slots[w].iter = 1

\* C23 as stated: in Strategy B the segment is created at most once per run
\* and, on every path, once the coordinator has destroyed it no worker it
\* spawned is still alive.
C23_SegmentOutlivesWorkers ==
    platform = "win" =>
        /\ shm.state = "destroyed" => \A i \in ProcIds : ~Live(procs[i])
        /\ shm.state # "none" <=> prc.shm_created

\* C24: in Strategy B a slot that holds a result holds the result of the
\* worker with the slot's index, and when the coordinator is about to read
\* the slots every worker of the iteration has exited with status 0 and
\* been waited for, and slot i holds what worker i of this iteration stored.
C24_SlotDiscipline ==
    platform = "win" =>
        /\ \A w \in DOMAIN shm.slots :
              shm.slots[w] # ZeroSlot => shm.slots[w].id = w
        /\ prc.pc = "record" =>
              \A i \in ProcIds :
                  /\ SpawnedNow(i)
                  /\ procs[i].st = "reaped"
                  /\ procs[i].status = 0
                  /\ shm.slots[i].id = i
                  /\ shm.slots[i].iter = prc.iter

C24_Witness ==
    /\ platform = "win"
    /\ prc.pc = "record"
    /\ prc.iter = 1
    /\ config.num_processes >= 2
    /\ config.array_length >= 2
    /\ \A i \in ProcIds : shm.slots[i].id = i /\ procs[i].st = "reaped"

(***************************************************************************)
(* Properties of cb_stats_compute (SpecStats).                             *)
(***************************************************************************)
\* C25: cb_stats_compute returns CB_ERR_ARGS exactly when times is null,
\* stats_out is null or count < 1, and then what stats_out points at is
\* what it was before the call.
C25_StatsRejectsEmpty ==
    stc.pc = "returned" =>
        /\ (stc.times.null \/ stc.before.null \/ stc.count < 1)
              <=> stc.ret = CB_ERR_ARGS
        /\ stc.ret = CB_ERR_ARGS => stc.stats_out = stc.before
        /\ stc.ret \in {CB_OK, CB_ERR_ARGS}

C25_Witness ==
    /\ stc.pc = "returned"
    /\ stc.ret = CB_ERR_ARGS
    /\ ~stc.times.null
    /\ Len(stc.times.v) >= 1
    /\ stc.count = 0
    /\ stc.before = Ptr(PriorStats)
    /\ stc.stats_out = Ptr(PriorStats)

\* C26: for count = 1 and non-null arguments cb_stats_compute returns CB_OK
\* with stddev exactly 0 (no division by count - 1 = 0), min, max and mean
\* equal to times[0], and iterations 1.
C26_SingleSampleStats ==
    (stc.pc = "returned" /\ stc.count = 1 /\ ~stc.times.null /\ ~stc.before.null)
        => /\ stc.ret = CB_OK
           /\ stc.stats_out.v.stddev_sec = Sqrt(Rat(0, 1))
           /\ stc.stats_out.v.min_sec = stc.times.v[1]
           /\ stc.stats_out.v.max_sec = stc.times.v[1]
           /\ stc.stats_out.v.mean_sec.den # 0
           /\ stc.stats_out.v.mean_sec.num =
                  stc.times.v[1] * stc.stats_out.v.mean_sec.den
           /\ stc.stats_out.v.iterations = 1

C26_Witness ==
    /\ stc.pc = "returned"
    /\ stc.ret = CB_OK
    /\ stc.count = 1
    /\ Len(stc.times.v) >= 2
    /\ stc.times.v[1] = MaxSample
    /\ stc.stats_out.v.mean_sec = Rat(MaxSample, 1)
    /\ stc.stats_out.v.stddev_sec = Sqrt(Rat(0, 1))

(***************************************************************************)
(* Properties of the process coordinator's error value (Spec).             *)
(***************************************************************************)
\* the error code of the operation that failed first in the iteration
FirstError ==
    CASE prc.fail_op \in {"pipe_create", "read"} -> CB_ERR_PIPE
      [] prc.fail_op = "spawn" -> CB_ERR_FORK
      [] prc.fail_op = "wait" -> CB_ERR_PLATFORM
      [] OTHER -> prc.err

\* C27: once an operation on a worker has failed in an iteration, the
\* coordinator's err is that operation's error until it returns, whatever
\* kill or wait fails afterwards; and the wait failure recorded as the
\* first one is the one with the lowest index.
C27_FirstErrorKept ==
    prc.fail_op # "none" =>
        /\ prc.err = FirstError
        /\ prc.pc \notin {"loop", "record"}
        /\ prc.fail_op = "wait" =>
              /\ "wait_failed" = LastCall(procs[prc.fail_i])
              /\ \A j \in ProcIds :
                    (j < prc.fail_i /\ procs[j].log # << >>)
                        => LastCall(procs[j]) = "wait"

C27_Witness ==
    /\ prc.pc = "returned"
    /\ prc.fail_op = "read"
    /\ prc.err = CB_ERR_PIPE
    /\ config.num_processes >= 2
    /\ \A j \in ProcIds : procs[j].log = <<"kill", "wait_failed">>

(***************************************************************************)
(* Properties of the thread coordinator's shared objects (Spec).           *)
(***************************************************************************)
\* the thread coordinator is inside iteration thr.iter
InIterationT == thr.pc \in {"create", "unwind", "join", "record"}

\* every worker thread of the iteration was handed the mutex in use and the
\* accumulator in use
SameReferences ==
    \A t \in ThreadIds :
        /\ threads[t].mutex_ref = mutex.inits
        /\ threads[t].shared_ref = shared.inst

\* C29 as stated: in iteration k the accumulator and the mutex in use are
\* the ones allocated for iteration k, and every worker of the iteration
\* holds references to them.
C29_AllocatedPerIteration ==
    InIterationT =>
        /\ shared.inst = thr.iter + 1
        /\ mutex.inits = thr.iter + 1
        /\ SameReferences

\* C29: the mutex is initialised once per run of the thread coordinator,
\* before the first iteration, and the accumulator once per iteration; in
\* every iteration all workers hold references to that one mutex and to
\* that iteration's accumulator.
C29_SingleSharedObjects ==
    /\ mutex.inits <= 1
    /\ InIterationT =>
          /\ mutex.inits = 1
          /\ mutex.state = "init"
          /\ shared.inst = thr.iter + 1
          /\ SameReferences

C29_Witness ==
    /\ thr.pc = "join"
    /\ thr.iter = 1
    /\ config.num_threads >= 2
    /\ mutex.inits = 1
    /\ shared.inst = 2
    /\ \A t \in ThreadIds : threads[t].pc \in {"lock", "update"}
    /\ SameReferences

(***************************************************************************)
(* Properties of the kernel (SpecKernel).                                  *)
(***************************************************************************)
RECURSIVE ExactSum(_, _)
\* the sum of the elements of ds with index in S
ExactSum(ds, S) ==
    IF S = {} THEN 0
    ELSE LET x == CHOOSE y \in S : TRUE IN ds[x] + ExactSum(ds, S \ {x})

\* what cb_array_sum has returned so far is the sum of the elements of its
\* slice, and once all calls are made the slice results add up to the
\* result for the whole array
KernelExact ==
    /\ \A k \in 1..Len(ker.slices) :
          ker.slices[k].sum =
              ExactSum(ker.data, ker.slices[k].start
                                   ..(ker.slices[k].start + ker.slices[k].length - 1))
    /\ ker.pc = "done" =>
          /\ ker.whole = ExactSum(ker.data, 0..(ker.len - 1))
          /\ ker.total = ker.whole

\* C28 as stated: for every dataset and every partition, every call of
\* cb_array_sum returns the sum of the elements of its slice (0 for an
\* empty slice), and the results for the n slices add up to the result for
\* the array as one slice.
C28_KernelAdditive ==
    /\ ker.pc # "undefined"
    /\ KernelExact

(***************************************************************************)
(* Properties of the two strategies side by side (SpecPair).               *)
(***************************************************************************)
PairRunning == ab.pc = "run"

\* both coordinators have returned to the caller
PairReturned == PairRunning /\ ab.a.pc = "done" /\ ab.b.pc = "done"

\* while both sides are in the same iteration, a worker both have spawned
\* has the same slice on both
SameSlices ==
    PairRunning /\ ab.a.iter = ab.b.iter /\ ab.a.pc # "done" /\ ab.b.pc # "done"
        => \A k \in 1..Min(Len(ab.a.slices), Len(ab.b.slices)) :
              ab.a.slices[k] = ab.b.slices[k]

\* both returned success with the same report, or both returned an error
SameOutcome ==
    PairReturned =>
        /\ (ab.a.err = CB_OK) <=> (ab.b.err = CB_OK)
        /\ ab.a.err = CB_OK => ab.a.report = ab.b.report

\* C30 as stated: run side by side on the same dataset and configuration,
\* Strategy A and Strategy B assign the same slice to worker i and return
\* the same outcome to the caller: the same report sum, parallelism and
\* iteration count on a failure-free run, and the same success-or-error
\* result when a worker terminates with a non-zero exit status.
C30_StrategiesInterchangeable == SameSlices /\ SameOutcome

Contributed ==
    {t \in ThreadIds :
        /\ thr.pc \in {"create", "unwind"} => t < thr.created
        /\ threads[t].pc \in {"unlock", "done"}}

RECURSIVE PartialSums(_)
PartialSums(S) ==
    IF S = {} THEN 0
    ELSE LET t == CHOOSE u \in S : TRUE
         IN threads[t].partial_sum + PartialSums(S \ {t})

\* C32: in every thread-mode iteration the accumulator starts from sum = 0,
\* earliest_start unset, latest_end = 0 before the first thread of the
\* iteration is created, and from then to the end of the iteration it holds
\* exactly the contributions of this iteration's threads: nothing of an
\* earlier iteration is in its sum or in its time span.
C32_AccumulatorPerIteration ==
    thr.pc \in {"create", "unwind", "join", "record"} =>
        /\ shared.sum = PartialSums(Contributed)
        /\ Contributed = {} =>
               shared.earliest_start = -1 /\ shared.latest_end = 0
        /\ Contributed # {} =>
               /\ \E t \in Contributed :
                      shared.earliest_start = threads[t].t_start
               /\ \A t \in Contributed :
                      shared.earliest_start <= threads[t].t_start
               /\ \E t \in Contributed : shared.latest_end = threads[t].t_end
               /\ \A t \in Contributed : shared.latest_end >= threads[t].t_end

\* a second iteration is about to create its first thread, after a first
\* iteration that left a sum and a time span in the accumulator
C32_Witness ==
    /\ thr.pc = "create"
    /\ thr.iter >= 1
    /\ thr.created = 0
    /\ thr.verified_sum > 0
    /\ shared.sum = 0
    /\ \E t \in ThreadIds : threads[t].pc = "done" /\ threads[t].partial_sum > 0

\* worker i of the current iteration has exited and its slot does not hold
\* a result it stored
ExitedUnwritten(i) ==
    /\ procs[i].st \in {"zombie", "reaped"}
    /\ procs[i].iter = prc.iter
    /\ ~(shm.slots[i].iter = procs[i].iter /\ shm.slots[i].id = i)

\* cb_process_wait has been called on every worker counted as spawned
AllWaitsIssued ==
    \A j \in ProcIds :
        procs[j].st # "none" /\ procs[j].iter = prc.iter =>
            \E k \in 1..Len(procs[j].log) :
                procs[j].log[k] \in {"wait", "wait_failed"}

C34_IterationsDoNotOverlap ==
    /\ prc.pc \notin {"idle", "returned"} =>
          \A i \in ProcIds :
              procs[i].st # "none" /\ procs[i].iter < prc.iter =>
                  procs[i].st = "reaped"
    /\ \A i, j \in ProcIds :
          procs[i].st # "none" /\ procs[j].st # "none"
              /\ procs[i].iter < procs[j].iter => procs[i].st = "reaped"
    /\ thr.pc \notin {"idle", "returned"} =>
          \A t \in ThreadIds :
              threads[t].pc # "none" /\ threads[t].iter < thr.iter =>
                  threads[t].pc = "done" /\ threads[t].joined
    /\ \A t, u \in ThreadIds :
          threads[t].pc \notin {"none", "undefined"}
              /\ threads[u].pc \notin {"none", "undefined"}
              /\ threads[t].iter < threads[u].iter =>
                  threads[t].pc = "done" /\ threads[t].joined

\* the second iteration of the thread coordinator has created its first
\* thread, which is running, while the entry of the second thread is still
\* the joined thread of the first iteration; the process coordinator before
\* it ran its iterations to the end
C34_Witness ==
    /\ Len(main.calls) = 3
    /\ thr.pc = "create"
    /\ thr.iter = 1
    /\ \E t, u \in ThreadIds :
          /\ threads[t].iter = 1 /\ threads[t].pc = "start"
          /\ threads[u].iter = 0 /\ threads[u].pc = "done" /\ threads[u].joined

ProcessRunComplete ==
    /\ prc.pc = "returned"
    /\ prc.err = CB_OK
    /\ prc.iter = config.iterations
    /\ Len(prc.times) = config.iterations
    /\ prc.launched = config.iterations * config.num_processes
    /\ \A i \in ProcIds : procs[i].st = "reaped"

\* cb_bench_thread_run has returned CB_OK after config.iterations iterations
\* with num_threads workers each
ThreadRunComplete ==
    /\ thr.pc = "returned"
    /\ thr.err = CB_OK
    /\ thr.iter = config.iterations
    /\ Len(thr.times) = config.iterations
    /\ thr.launched = config.iterations * config.num_threads
    /\ \A t \in ThreadIds : threads[t].pc = "done" /\ threads[t].joined

\* C36: when no platform operation fails and the coordinator and its
\* workers keep being scheduled, a process coordinator and a thread
\* coordinator that have been called return: no deadlock between the
\* coordinator's blocking reads, waits and joins and the workers' writes and
\* mutex acquisitions keeps them from it, and they return CB_OK after exactly
\* config.iterations iterations with exactly n workers each.
C36_CoordinatorsTerminate ==
    /\ (main.pc = "in_process") ~> ProcessRunComplete
    /\ (main.pc = "in_thread") ~> ThreadRunComplete

\* the thread coordinator has returned from a run of several iterations
\* with several threads, after a process coordinator that did the same
C36_Witness ==
    /\ ThreadRunComplete
    /\ config.iterations >= 2
    /\ config.num_threads >= 2
    /\ config.num_processes >= 2
    /\ session.process.stats_iterations = config.iterations

\* C37 as stated: when the Strategy-A coordinator returns, on every path, no
\* read end and no write end of a channel it created is still open in the
\* coordinator process.
C37_NoDescriptorLeft ==
    platform = "unix" /\ prc.pc = "returned" =>
        \A i \in ProcIds : ~pipes[i].rd /\ ~pipes[i].wr

\* C38: a process or thread coordinator that returns an error has left the
\* caller's report as it found it, and a report is written only by a
\* coordinator whose config.iterations iterations have all been recorded
\* with no operation having failed.
C38_ReportOnlyOnSuccess ==
    /\ prc.pc \in {"cleanup", "returned"} /\ prc.err # CB_OK =>
          session.process = NoReport
    /\ thr.pc \in {"cleanup", "returned"} /\ thr.err # CB_OK =>
          session.thread = NoReport
    /\ session.process # NoReport =>
          /\ prc.pc \in {"cleanup", "returned"}
          /\ prc.err = CB_OK
          /\ main.pc = "in_process" =>
                /\ prc.iter = config.iterations
                /\ Len(prc.times) = config.iterations
                /\ prc.fail_op = "none"
    /\ session.thread # NoReport =>
          /\ thr.pc \in {"cleanup", "returned"}
          /\ thr.err = CB_OK
          /\ main.pc = "in_thread" =>
                /\ thr.iter = config.iterations
                /\ Len(thr.times) = config.iterations

\* the process coordinator has returned an error from its second iteration,
\* after a first iteration that was recorded, and the report is untouched
C38_Witness ==
    /\ main.pc = "in_process"
    /\ prc.pc = "returned"
    /\ prc.err # CB_OK
    /\ prc.iter = 1
    /\ Len(prc.times) = 1
    /\ session.process = NoReport
    /\ session.single # NoReport

\* C39: in Strategy A a forked worker only computes, writes its Result,
\* closes its descriptors and exits: it is never found past the end of
\* child_fn, in the coordinator's code; processes are forked by the
\* coordinator alone, into a table entry that holds no unreaped worker; and
\* so at most num_processes workers are alive at any time.
C39_WorkersStayWorkers ==
    platform = "unix" =>
        /\ \A i \in ProcIds :
              procs[i].st \in {"none", "run", "wrote", "zombie", "reaped"}
        /\ prc.pc \in {"pipe", "spawn"} =>
              procs[prc.i].st \in {"none", "reaped"}
        /\ Cardinality({i \in ProcIds : Live(procs[i])}) <= config.num_processes
        /\ prc.launched <= config.iterations * config.num_processes
        /\ prc.pc \notin {"idle", "returned"} =>
              prc.launched =
                  prc.iter * config.num_processes
                      + Cardinality({i \in ProcIds :
                            procs[i].st # "none" /\ procs[i].iter = prc.iter
                                /\ prc.iter < config.iterations})

\* in the second iteration all num_processes >= 2 workers are alive at once
\* while the coordinator reads
C39_Witness ==
    /\ platform = "unix"
    /\ config.num_processes >= 2
    /\ prc.pc = "read"
    /\ prc.iter = 1
    /\ \A i \in ProcIds : Live(procs[i]) /\ procs[i].iter = 1

\* C40 as stated: the thread coordinator initializes the shared mutex once,
\* before any thread exists, and destroys it only after every thread
\* created during the run has finished and been joined: while a thread may
\* still acquire or hold the mutex it is not destroyed.
C40_MutexOutlivesThreads ==
    /\ mutex.inits <= 1
    /\ mutex.state = "uninit" => \A t \in ThreadIds : threads[t].pc = "none"
    /\ mutex.state = "destroyed" =>
          \A t \in ThreadIds :
              \/ threads[t].pc = "none"
              \/ threads[t].pc = "done" /\ threads[t].joined

====
